---- MODULE Spec2Model ----
(***************************************************************************)
(* A model of the factur-x library (facturx/facturx.py): the reader of the *)
(* EmbeddedFiles name tree (get_xml_from_pdf) and the assembler of the     *)
(* hybrid PDF (generate_from_file).  PyPDF4 (the PDF object store) and     *)
(* lxml (the XML engine) are collaborators: a PDF is the graph of its      *)
(* objects, an XML payload is its bytes plus what the engine reads in it.  *)
(***************************************************************************)
EXTENDS Integers, Sequences, FiniteSets, TLC

VARIABLES pdf, result

vars == <<pdf, result>>

(* ------------------------------ bounds --------------------------------- *)

\* name/value pairs in the leaf lists of the source PDFs' name trees
MaxLeafPairs == 2

\* entries of the attachments mapping handed to generate_from_file
MaxAttachments == 2

(* --------------------------- Python values ----------------------------- *)

None == [py |-> "None"]

False == [py |-> "False"]

PyStr(s) == [py |-> "str", s |-> s]

PyBytes(b) == [py |-> "bytes", b |-> b]

PyList(l) == [py |-> "list", l |-> l]

PyBool(v) == [py |-> "bool", v |-> v]

\* `not x` of Python for the values the code tests that way
Falsy(x) ==
    \/ x = None
    \/ x = False
    \/ (x.py = "list" /\ x.l = <<>>)
    \/ (x.py = "str" /\ x.s = "")
    \/ (x.py = "bytes" /\ x.b = <<>>)
    \/ (x.py = "dict" /\ DOMAIN x.d = {})
    \/ (x.py = "bool" /\ ~x.v)

InList(x, l) == \E i \in 1..Len(l) : l[i] = x

\* str.lower() on the argument strings the calls use
lower(s) ==
    CASE s = "Source" -> "source"
      [] s = "Supplement" -> "supplement"
      [] s = "Order-X" -> "order-x"
      [] s = "BASIC" -> "basic"
      [] OTHER -> s

(* ---------------------------- constants -------------------------------- *)

FACTURX_FILENAME == "factur-x.xml"

ZUGFERD_FILENAMES == <<"zugferd-invoice.xml", "ZUGFeRD-invoice.xml">>

ORDERX_FILENAME == "order-x.xml"

ALL_FILENAMES == <<FACTURX_FILENAME>> \o ZUGFERD_FILENAMES \o <<ORDERX_FILENAME>>

FACTURX_LEVEL2xsd ==
    ("minimum" :> "facturx-minimum/FACTUR-X_MINIMUM.xsd") @@
    ("basicwl" :> "facturx-basicwl/FACTUR-X_BASIC-WL.xsd") @@
    ("basic" :> "facturx-basic/FACTUR-X_BASIC.xsd") @@
    ("en16931" :> "facturx-en16931/FACTUR-X_EN16931.xsd") @@
    ("extended" :> "facturx-extended/FACTUR-X_EXTENDED.xsd")

ORDERX_LEVEL2xsd ==
    ("basic" :> "orderx-basic/SCRDMCCBDACIOMessageStructure_100pD20B.xsd") @@
    ("comfort" :> "orderx-comfort/SCRDMCCBDACIOMessageStructure_100pD20B.xsd") @@
    ("extended" :> "orderx-extended/SCRDMCCBDACIOMessageStructure_100pD20B.xsd")

ZUGFERD_xsd == "zugferd/ZUGFeRD1p0.xsd"

\* (a variant of FACTURX_LEVEL2xmp: the levels in capital letters, as they
\* are written)
FACTURX_LEVEL2upper ==
    ("minimum" :> "MINIMUM") @@
    ("basicwl" :> "BASICWL") @@
    ("basic" :> "BASIC") @@
    ("en16931" :> "EN16931") @@
    ("extended" :> "EXTENDED")

FACTURX_LEVEL2xmp ==
    ("minimum" :> "MINIMUM") @@
    ("basicwl" :> "BASIC WL") @@
    ("basic" :> "BASIC") @@
    ("en16931" :> "EN 16931") @@
    ("extended" :> "EXTENDED")

ORDERX_TYPES == {"order", "order_change", "order_response"}

ORDERX_code2type ==
    ("220" :> "order") @@ ("230" :> "order_change") @@ ("231" :> "order_response")

XML_AFRelationship == {"data", "source", "alternative"}

ATTACHMENTS_AFRelationship == {"supplement", "unspecified"}

(* ---------------------------- XML engine ------------------------------- *)
(* What lxml reads in a payload: the root's qualified name (in tokens, the *)
(* last one being what endswith() is asked about), the text of the         *)
(* guideline ID split at ':', the context element that holds it, the type  *)
(* code, the header fields, and the XSD files it validates against.        *)

NoBaseInfo == [present |-> FALSE]

BaseInfo(seller, buyer, number, date) ==
    [present |-> TRUE, seller |-> seller, buyer |-> buyer,
     number |-> number, date |-> date]

FX_EN16931 ==
    [bytes |-> <<60, 1>>,
     tag |-> <<"{urn:un:unece:uncefact:data:standard:CrossIndustryInvoice:100}",
               "CrossIndustryInvoice">>,
     context |-> "ExchangedDocumentContext",
     guideline |-> <<"urn", "cen.eu", "en16931", "2017">>,
     typecode |-> "380",
     base_info |-> BaseInfo("Seller SA", "Buyer GmbH", "I1242", <<"2017", "08", "17">>),
     valid_xsd |-> {FACTURX_LEVEL2xsd["en16931"], FACTURX_LEVEL2xsd["extended"]}]

FX_MINIMUM ==
    [bytes |-> <<60, 2>>,
     tag |-> <<"{urn:un:unece:uncefact:data:standard:CrossIndustryInvoice:100}",
               "CrossIndustryInvoice">>,
     context |-> "ExchangedDocumentContext",
     guideline |-> <<"urn", "factur-x.eu", "1p0", "minimum">>,
     typecode |-> "380",
     base_info |-> BaseInfo("Seller SA", "Buyer GmbH", "I1243", <<"2017", "08", "18">>),
     valid_xsd |-> {FACTURX_LEVEL2xsd["minimum"], FACTURX_LEVEL2xsd["basicwl"]}]

\* well formed, declared en16931, and valid against no schema
FX_INVALID ==
    [bytes |-> <<60, 3>>,
     tag |-> <<"{urn:un:unece:uncefact:data:standard:CrossIndustryInvoice:100}",
               "CrossIndustryInvoice">>,
     context |-> "ExchangedDocumentContext",
     guideline |-> <<"urn", "cen.eu", "en16931", "2017">>,
     typecode |-> "380",
     base_info |-> BaseInfo("Seller SA", "Buyer GmbH", "I1244", <<"2017", "08", "19">>),
     valid_xsd |-> {}]

OX_BASIC ==
    [bytes |-> <<60, 4>>,
     tag |-> <<"{urn:un:unece:uncefact:data:SCRDMCCBDACIOMessageStructure:100}",
               "SCRDMCCBDACIOMessageStructure">>,
     context |-> "ExchangedDocumentContext",
     guideline |-> <<"urn", "order-x.eu", "1p0", "basic">>,
     typecode |-> "220",
     base_info |-> BaseInfo("Seller SA", "Buyer GmbH", "PO77", <<"2021", "03", "01">>),
     valid_xsd |-> {ORDERX_LEVEL2xsd["basic"]}]

\* ZUGFeRD 1.0: the header is rsm:HeaderExchangedDocument, which
\* _extract_base_info does not look at
ZF_BASIC ==
    [bytes |-> <<60, 5>>,
     tag |-> <<"{urn:ferd:CrossIndustryDocument:invoice:1p0}",
               "CrossIndustryDocument">>,
     context |-> "SpecifiedExchangedDocumentContext",
     guideline |-> <<"urn", "ferd", "CrossIndustryDocument", "invoice", "1p0", "basic">>,
     typecode |-> "",
     base_info |-> NoBaseInfo,
     valid_xsd |-> {ZUGFERD_xsd}]

\* an order response
OX_RESPONSE ==
    [bytes |-> <<60, 6>>,
     tag |-> <<"{urn:un:unece:uncefact:data:SCRDMCCBDACIOMessageStructure:100}",
               "SCRDMCCBDACIOMessageStructure">>,
     context |-> "ExchangedDocumentContext",
     guideline |-> <<"urn", "order-x.eu", "1p0", "comfort">>,
     typecode |-> "231",
     base_info |-> BaseInfo("Seller SA", "Buyer GmbH", "PO77", <<"2021", "03", "02">>),
     valid_xsd |-> {ORDERX_LEVEL2xsd["comfort"], ORDERX_LEVEL2xsd["extended"]}]

\* an order whose type code is written between blanks; what the schema
\* says of the blanks is not known here: the document is taken as rejected,
\* so that it is embedded by the calls without validation only
OX_PADDED ==
    [bytes |-> <<60, 7>>,
     tag |-> <<"{urn:un:unece:uncefact:data:SCRDMCCBDACIOMessageStructure:100}",
               "SCRDMCCBDACIOMessageStructure">>,
     context |-> "ExchangedDocumentContext",
     guideline |-> <<"urn", "order-x.eu", "1p0", "basic">>,
     typecode |-> " 220 ",
     base_info |-> BaseInfo("Seller SA", "Buyer GmbH", "PO78", <<"2021", "03", "03">>),
     valid_xsd |-> {}]

\* an order change whose guideline ID names a level of the invoices
OX_MINIMUM ==
    [bytes |-> <<60, 8>>,
     tag |-> <<"{urn:un:unece:uncefact:data:SCRDMCCBDACIOMessageStructure:100}",
               "SCRDMCCBDACIOMessageStructure">>,
     context |-> "ExchangedDocumentContext",
     guideline |-> <<"urn", "order-x.eu", "1p0", "minimum">>,
     typecode |-> "230",
     base_info |-> BaseInfo("Seller SA", "Buyer GmbH", "PO79", <<"2021", "03", "04">>),
     valid_xsd |-> {}]

XmlDocuments ==
    {FX_EN16931, FX_MINIMUM, FX_INVALID, OX_BASIC, ZF_BASIC,
     OX_RESPONSE, OX_PADDED, OX_MINIMUM}

\* bytes that are no XML document (the content of an unrelated attachment)
BLOB == <<37, 80>>

\* etree.tostring(xml, pretty_print=True, encoding='UTF-8',
\* xml_declaration=True): the document written anew, behind a declaration
tostring(root) == <<60, 63>> \o root.bytes

\* etree.fromstring: the document read in the bytes, or a syntax error
fromstring(xml_bytes) ==
    LET body == IF Len(xml_bytes) > 2 /\ SubSeq(xml_bytes, 1, 2) = <<60, 63>>
                THEN SubSeq(xml_bytes, 3, Len(xml_bytes)) ELSE xml_bytes
    IN  IF \E x \in XmlDocuments : x.bytes = body
        THEN [ok |-> TRUE, root |-> CHOOSE x \in XmlDocuments : x.bytes = body]
        ELSE [ok |-> FALSE]

\* str.endswith on the root's qualified name
endswith(tag, suffix) == tag[Len(tag)] = suffix

(* ------------------------- DocumentClassifier -------------------------- *)

Raise(e) == [ok |-> FALSE, error |-> e]

Return(v) == [ok |-> TRUE, value |-> v]

\* (a variant of get_flavor that reads the type code of the document)
get_flavor_from_type_code(xml_etree) ==
    IF xml_etree.typecode \in DOMAIN ORDERX_code2type
    THEN Return("order-x") ELSE Return("factur-x")

get_flavor(xml_etree) ==
    IF endswith(xml_etree.tag, "CrossIndustryInvoice") THEN Return("factur-x")
    ELSE IF endswith(xml_etree.tag, "CrossIndustryDocument") THEN Return("zugferd")
    ELSE IF endswith(xml_etree.tag, "SCRDMCCBDACIOMessageStructure")
    THEN Return("order-x")
    ELSE Raise("Exception: could not detect the flavor")

\* (a variant of get_level that looks at the second-to-last segment first)
get_level_second_to_last_first(xml_etree) ==
    LET doc_id == xml_etree.guideline
        possible_values == DOMAIN FACTURX_LEVEL2xsd \cup DOMAIN ORDERX_LEVEL2xsd
        n == Len(doc_id)
    IN  IF n >= 2 /\ doc_id[n - 1] \in possible_values THEN Return(doc_id[n - 1])
        ELSE IF n >= 1 /\ doc_id[n] \in possible_values THEN Return(doc_id[n])
        ELSE Raise("ValueError: invalid URN")

get_level(xml_etree) ==
    LET doc_id == xml_etree.guideline
        possible_values == DOMAIN FACTURX_LEVEL2xsd \cup DOMAIN ORDERX_LEVEL2xsd
        n == Len(doc_id)
    IN  IF xml_etree.context \notin
              {"ExchangedDocumentContext", "SpecifiedExchangedDocumentContext"}
        THEN Raise("ValueError: no guideline ID")
        ELSE IF n = 0
        THEN Raise("AttributeError: 'NoneType' object has no attribute 'split'")
        ELSE IF doc_id[n] \in possible_values THEN Return(doc_id[n])
        ELSE IF n < 2 THEN Raise("IndexError: list index out of range")
        ELSE IF doc_id[n - 1] \in possible_values THEN Return(doc_id[n - 1])
        ELSE Raise("ValueError: invalid URN")

\* (a variant of strip that keeps the text as it is)
keep_whitespace(s) == s

\* str.strip() on the type codes the payloads carry
strip(s) ==
    CASE s = " 220 " -> "220"
      [] s = "231 " -> "231"
      [] s = "   " -> ""
      [] OTHER -> s

\* the element /rsm:SCRDMCCBDACIOMessageStructure/rsm:ExchangedDocument/
\* ram:TypeCode: found below a root of that local name only; its text is ""
\* when the element is empty or absent
type_code_xpath(xml_etree) ==
    IF Len(xml_etree.tag) = 2 /\ xml_etree.tag[2] = "SCRDMCCBDACIOMessageStructure"
    THEN xml_etree.typecode ELSE ""

get_orderx_type(xml_etree) ==
    LET code == IF type_code_xpath(xml_etree) # "" /\ strip(type_code_xpath(xml_etree)) # ""
                THEN strip(type_code_xpath(xml_etree)) ELSE "None"
    IN  IF code \notin DOMAIN ORDERX_code2type
        THEN Raise("Exception: not a valid Order-X TypeCode")
        ELSE Return(ORDERX_code2type[code])

\* xml_check_xsd on a parsed tree (xml_etree given) or on bytes (parsed when
\* the flavor or the level has to be detected, and by the validation itself)
xml_check_xsd(xml, is_etree, flavor0, level0) ==
    LET parsed == IF is_etree THEN [ok |-> TRUE, root |-> xml] ELSE fromstring(xml)
        detect_flavor == flavor0 \notin {"factur-x", "facturx", "zugferd", "order-x", "orderx"}
        fl == IF detect_flavor THEN get_flavor(parsed.root) ELSE Return(flavor0)
        flavor == fl.value
        table == IF flavor \in {"factur-x", "facturx"} THEN FACTURX_LEVEL2xsd
                 ELSE ORDERX_LEVEL2xsd
        detect_level == flavor # "zugferd" /\ level0 \notin DOMAIN table
        lv == IF detect_level THEN get_level(parsed.root) ELSE Return(level0)
        level == lv.value
        xsd_file == IF flavor = "zugferd" THEN ZUGFERD_xsd ELSE table[level]
    IN  IF detect_flavor /\ ~parsed.ok THEN Raise("Exception: the XML syntax is invalid")
        ELSE IF ~fl.ok THEN fl
        ELSE IF detect_level /\ ~parsed.ok THEN Raise("Exception: the XML syntax is invalid")
        ELSE IF ~lv.ok THEN lv
        ELSE IF flavor # "zugferd" /\ level \notin DOMAIN table
        THEN Raise("ValueError: wrong level")
        ELSE IF ~parsed.ok \/ xsd_file \notin parsed.root.valid_xsd
        THEN Raise("Exception: not valid against the XSD")
        ELSE Return(TRUE)

(* ----------------------------- PDF objects ----------------------------- *)
(* PyPDF4's object types.  An IndirectObject holds the object it resolves  *)
(* to; a stream is a dictionary with data (StreamObject is a subclass of   *)
(* DictionaryObject).                                                      *)

DictionaryObject(f) == [t |-> "dict", d |-> f]

ArrayObject(s) == [t |-> "array", a |-> s]

createStringObject(s) == [t |-> "str", s |-> s]

NameObject(n) == [t |-> "name", n |-> n]

IndirectObject(o) == [t |-> "ref", o |-> o]

StreamObject(f, data) == [t |-> "stream", d |-> f, data |-> data]

NumberObject(v) == [t |-> "num", v |-> v]

EmptyDict == [k \in {} |-> NumberObject(0)]

\* isinstance(x, dict)
IsDict(x) == x.t \in {"dict", "stream"}

\* isinstance(x, list)
IsList(x) == x.t = "array"

\* PdfObject.getObject
getObject(x) == IF x.t = "ref" THEN x.o ELSE x

\* DictionaryObject.__getitem__, which resolves an indirect value
GetItem(node, key) == getObject(node.d[key])

\* DecodedStreamObject.flateEncode: the stream gets a /Filter and its data
\* is held compressed
flateEncode(f, data) ==
    StreamObject(("/Filter" :> NameObject("/FlateDecode")) @@ f, [zlib |-> data])

\* StreamObject.getData: the data with the stream's filter undone
getData(stream) ==
    IF "/Filter" \in DOMAIN stream.d THEN stream.data.zlib ELSE stream.data

(* --------------------------- NameTreeReader ---------------------------- *)

\* a dictionary entry that is a dictionary, direct or indirect; else False
_get_dict_entry(node, entry) ==
    IF entry \notin DOMAIN node.d THEN False
    ELSE LET dict_entry == node.d[entry]
         IN  IF IsDict(dict_entry) THEN dict_entry
             ELSE IF dict_entry.t = "ref" /\ IsDict(dict_entry.o) THEN dict_entry.o
             ELSE False

RECURSIVE _parse_embeddedfiles_kids_node(_, _, _)
RECURSIVE ParseKidEntries(_, _, _, _)

\* the for loop of _parse_embeddedfiles_kids_node, from entry i on; res is
\* the list the caller handed in, extended in place
ParseKidEntries(entries, i, level, res) ==
    IF i > Len(entries) THEN [ok |-> TRUE, res |-> res]
    ELSE LET kid_entry == entries[i]
             kids_node == kid_entry.o
         IN  IF kid_entry.t # "ref" THEN [ok |-> FALSE, res |-> res]
             ELSE IF ~IsDict(kids_node) THEN [ok |-> FALSE, res |-> res]
             ELSE IF "/Names" \in DOMAIN kids_node.d
             THEN IF ~IsList(GetItem(kids_node, "/Names"))
                  THEN [ok |-> FALSE, res |-> res]
                  ELSE ParseKidEntries(entries, i + 1, level,
                                       res \o GetItem(kids_node, "/Names").a)
             ELSE IF "/Kids" \in DOMAIN kids_node.d /\ level = 1
             THEN \* the value the nested call returns is dropped (line 247)
                  ParseKidEntries(entries, i + 1, level,
                      _parse_embeddedfiles_kids_node(
                          GetItem(kids_node, "/Kids"), 2, res).res)
             ELSE [ok |-> FALSE, res |-> res]

_parse_embeddedfiles_kids_node(kids_node, level, res) ==
    IF ~IsList(kids_node) THEN [ok |-> FALSE, res |-> res]
    ELSE ParseKidEntries(kids_node.a, 1, level, res)

\* (a variant of _get_embeddedfiles that does not look at the length of the
\* list)
_get_embeddedfiles_any_length(embeddedfiles_node) ==
    LET parse_result ==
            _parse_embeddedfiles_kids_node(GetItem(embeddedfiles_node, "/Kids"), 1, <<>>)
    IN  IF "/Names" \in DOMAIN embeddedfiles_node.d
        THEN IF ~IsList(GetItem(embeddedfiles_node, "/Names")) THEN False
             ELSE PyList(GetItem(embeddedfiles_node, "/Names").a)
        ELSE IF "/Kids" \in DOMAIN embeddedfiles_node.d
        THEN IF ~parse_result.ok THEN False ELSE PyList(parse_result.res)
        ELSE False

\* the leaf list of the name tree, or False
_get_embeddedfiles(embeddedfiles_node) ==
    LET parse_result ==
            _parse_embeddedfiles_kids_node(GetItem(embeddedfiles_node, "/Kids"), 1, <<>>)
        collected ==
            IF "/Names" \in DOMAIN embeddedfiles_node.d
            THEN IF ~IsList(GetItem(embeddedfiles_node, "/Names")) THEN False
                 ELSE PyList(GetItem(embeddedfiles_node, "/Names").a)
            ELSE IF "/Kids" \in DOMAIN embeddedfiles_node.d
            THEN IF ~parse_result.ok THEN False ELSE PyList(parse_result.res)
            ELSE False
    IN  IF collected = False THEN False
        ELSE IF Len(collected.l) % 2 # 0 THEN False
        ELSE collected

\* list(zip(embeddedfiles, embeddedfiles[1:]))[::2]
embeddedfiles_by_two(embeddedfiles) ==
    [k \in 1..(Len(embeddedfiles) \div 2) |->
        <<embeddedfiles[2 * k - 1], embeddedfiles[2 * k]>>]

\* lines 335-355: the payload of the pair that matched; any exception of
\* these lines is caught by the handler of line 357
ReadMatch(filename, file_obj, check_xsd) ==
    LET xml_file_dict == getObject(file_obj)
        ef == GetItem(xml_file_dict, "/EF")
        f == GetItem(ef, "/F")
        tmp_xml_bytes == getData(f)
        xml_root == fromstring(tmp_xml_bytes)
        flavor == IF filename = ORDERX_FILENAME THEN "order-x"
                  ELSE IF filename = FACTURX_FILENAME THEN "factur-x"
                  ELSE IF InList(filename, ZUGFERD_FILENAMES) THEN "zugferd"
                  ELSE "autodetect"
    IN  IF ~IsDict(xml_file_dict) \/ "/EF" \notin DOMAIN xml_file_dict.d
        THEN <<None, None>>
        ELSE IF ~IsDict(ef) \/ "/F" \notin DOMAIN ef.d THEN <<None, None>>
        ELSE IF f.t # "stream" THEN <<None, None>>
        ELSE IF ~xml_root.ok THEN <<None, None>>
        ELSE IF check_xsd /\ ~xml_check_xsd(xml_root.root, TRUE, flavor, "autodetect").ok
        THEN <<None, None>>
        ELSE <<PyStr(filename), PyBytes(tmp_xml_bytes)>>

\* (a variant of the scan that goes through the recognized names in their
\* order and looks each one up in the pairs)
ScanByFilename(pairs, i, filenames, check_xsd) ==
    LET hits == {<<n, k>> \in (1..Len(filenames)) \X (1..Len(pairs)) :
                    pairs[k][1].t = "str" /\ pairs[k][1].s = filenames[n]}
        first == CHOOSE h \in hits : \A g \in hits :
                    h[1] < g[1] \/ (h[1] = g[1] /\ h[2] <= g[2])
    IN  IF hits = {} THEN <<False, False>>
        ELSE ReadMatch(pairs[first[2]][1].s, pairs[first[2]][2], check_xsd)

RECURSIVE ScanPastFailures(_, _, _, _)

\* (a variant of the scan that goes on to the next pair when the pair that
\* matched cannot be read)
ScanPastFailures(pairs, i, filenames, check_xsd) ==
    IF i > Len(pairs) THEN <<False, False>>
    ELSE IF pairs[i][1].t = "str" /\ InList(pairs[i][1].s, filenames)
            /\ ReadMatch(pairs[i][1].s, pairs[i][2], check_xsd) # <<None, None>>
    THEN ReadMatch(pairs[i][1].s, pairs[i][2], check_xsd)
    ELSE ScanPastFailures(pairs, i + 1, filenames, check_xsd)

RECURSIVE ScanEmbeddedFiles(_, _, _, _)

\* the for loop of lines 332-356, from pair i on
ScanEmbeddedFiles(pairs, i, filenames, check_xsd) ==
    IF i > Len(pairs) THEN <<False, False>>
    ELSE LET filename == pairs[i][1]
             file_obj == pairs[i][2]
         IN  IF filename.t = "str" /\ InList(filename.s, filenames)
             THEN ReadMatch(filename.s, file_obj, check_xsd)
             ELSE ScanEmbeddedFiles(pairs, i + 1, filenames, check_xsd)

\* pdf_file: the document PdfFileReader reads, or None; check_xsd and
\* filenames: Python values, a bool and a list when the caller respects the
\* signature
get_xml_from_pdf(pdf_file, check_xsd, filenames) ==
    LET names == IF Falsy(filenames) THEN ALL_FILENAMES ELSE filenames.l
        pdf_root == pdf_file.root
        catalog_name == _get_dict_entry(pdf_root, "/Names")
        embeddedfiles_node == _get_dict_entry(catalog_name, "/EmbeddedFiles")
        embeddedfiles == _get_embeddedfiles(embeddedfiles_node)
    IN  IF pdf_file = None THEN Raise("ValueError: missing pdf_invoice argument")
        ELSE IF check_xsd.py # "bool"
        THEN Raise("ValueError: bad type for check_xsd argument")
        ELSE IF filenames.py # "list"
        THEN Raise("ValueError: bad type for filenames argument")
        ELSE IF catalog_name = False \/ catalog_name.d = EmptyDict
        THEN Return(<<None, None>>)
        ELSE IF embeddedfiles_node = False \/ embeddedfiles_node.d = EmptyDict
        THEN Return(<<None, None>>)
        ELSE IF Falsy(embeddedfiles) THEN Return(<<None, None>>)
        ELSE Return(ScanEmbeddedFiles(embeddedfiles_by_two(embeddedfiles.l), 1,
                                      names, check_xsd.v))

get_facturx_xml_from_pdf(pdf_file, check_xsd) ==
    get_xml_from_pdf(pdf_file, check_xsd,
                     PyList(<<FACTURX_FILENAME>> \o ZUGFERD_FILENAMES))

get_orderx_xml_from_pdf(pdf_file, check_xsd) ==
    get_xml_from_pdf(pdf_file, check_xsd, PyList(<<ORDERX_FILENAME>>))

(* ------------------------------ documents ------------------------------ *)
(* A PDF file as PdfFileReader sees it and PdfFileWriter writes it: the    *)
(* pages, the objects of the file, the catalog (/Root) and /Info.          *)

PdfFile(root, objects, info) ==
    [pages |-> <<"page 1">>, objects |-> objects, root |-> root, info |-> info, ID |-> None]

\* a file specification as it is found in a PDF: its embedded file stream is
\* compressed
FileSpec(filename, data) ==
    IndirectObject(DictionaryObject(
        ("/Type" :> NameObject("/Filespec")) @@
        ("/F" :> createStringObject(filename)) @@
        ("/EF" :> DictionaryObject(
            "/F" :> IndirectObject(flateEncode(
                "/Type" :> NameObject("/EmbeddedFile"), data))))))

NamePair(filename, data) == <<createStringObject(filename), FileSpec(filename, data)>>

\* the name/value pairs the source PDFs are built from: an unrelated file,
\* two files named factur-x.xml with different contents (the second fails
\* the schema), an order and a ZUGFeRD 1.0 invoice
LeafPairs ==
    {NamePair("a.txt", BLOB),
     NamePair(FACTURX_FILENAME, FX_EN16931.bytes),
     NamePair(FACTURX_FILENAME, FX_INVALID.bytes),
     NamePair(ORDERX_FILENAME, OX_BASIC.bytes),
     NamePair(ZUGFERD_FILENAMES[1], ZF_BASIC.bytes)}

Flat(ps) ==
    [i \in 1..(2 * Len(ps)) |-> ps[(i + 1) \div 2][IF i % 2 = 1 THEN 1 ELSE 2]]

\* the well-formed leaf lists, and the ones cut after a name (odd length)
EvenLeafLists == {Flat(ps) : ps \in UNION {[1..k -> LeafPairs] : k \in 0..MaxLeafPairs}}

OddLeafLists == {SubSeq(l, 1, Len(l) - 1) : l \in EvenLeafLists \ {<<>>}}

\* the well-formed leaf lists that sit beside a broken entry
ShortLeafLists == {l \in EvenLeafLists : Len(l) < 2 * MaxLeafPairs}

Leaf(l) == IndirectObject(DictionaryObject("/Names" :> ArrayObject(l)))

Node(kids) == IndirectObject(DictionaryObject("/Kids" :> ArrayObject(kids)))

\* the two parts of a leaf list cut after k pairs
FirstPairs(l, k) == SubSeq(l, 1, 2 * k)

OtherPairs(l, k) == SubSeq(l, 2 * k + 1, Len(l))

Cuts(l) == 0..(Len(l) \div 2)

\* /Kids entries that break the rules of a name tree: a direct dictionary, a
\* reference to a number, a node with neither /Names nor /Kids, a node whose
\* /Names is no array, a node whose /Kids is no array
BadKids ==
    {DictionaryObject("/Names" :> ArrayObject(<<>>)),
     IndirectObject(NumberObject(7)),
     IndirectObject(DictionaryObject("/Limits" :> ArrayObject(<<>>))),
     IndirectObject(DictionaryObject("/Names" :> NameObject("/None"))),
     IndirectObject(DictionaryObject("/Kids" :> NumberObject(7)))}

\* a grandchild that has /Kids: a third level of nesting, with a leaf below
ThirdLevel == Node(<<Leaf(Flat(<<NamePair(FACTURX_FILENAME, FX_EN16931.bytes)>>))>>)

\* the EmbeddedFiles nodes of the source PDFs
DirectTrees ==
    {DictionaryObject("/Names" :> ArrayObject(l)) : l \in EvenLeafLists \cup OddLeafLists}

OneLevelTrees ==
    {DictionaryObject("/Kids" :> ArrayObject(<<Leaf(FirstPairs(l, k)), Leaf(OtherPairs(l, k))>>)) :
        <<l, k>> \in {<<l, k>> \in (EvenLeafLists \cup OddLeafLists) \X (0..MaxLeafPairs) :
                          k \in Cuts(l)}}

TwoLevelTrees ==
    {DictionaryObject("/Kids" :> ArrayObject(
         <<Node(<<Leaf(FirstPairs(l, k))>>), Node(<<Leaf(OtherPairs(l, k))>>)>>)) :
        <<l, k>> \in {<<l, k>> \in EvenLeafLists \X (0..MaxLeafPairs) : k \in Cuts(l)}}

\* a broken entry among the children of the root, before or after a leaf
BrokenChildTrees ==
    {DictionaryObject("/Kids" :> ArrayObject(<<Leaf(l), b>>)) :
        <<l, b>> \in ShortLeafLists \X BadKids}
    \cup
    {DictionaryObject("/Kids" :> ArrayObject(<<b, Leaf(l)>>)) :
        <<l, b>> \in ShortLeafLists \X BadKids}

\* a broken entry, or a third level, among the grandchildren, before or
\* after a leaf, beside a child that is a leaf
BrokenGrandchildTrees ==
    {DictionaryObject("/Kids" :> ArrayObject(
         <<Node(<<Leaf(FirstPairs(p[1], p[2])), p[3]>>), Leaf(OtherPairs(p[1], p[2]))>>)) :
        p \in {p \in ShortLeafLists \X (0..MaxLeafPairs) \X (BadKids \cup {ThirdLevel}) :
                   p[2] \in Cuts(p[1])}}
    \cup
    {DictionaryObject("/Kids" :> ArrayObject(
         <<Node(<<p[3], Leaf(FirstPairs(p[1], p[2]))>>), Leaf(OtherPairs(p[1], p[2]))>>)) :
        p \in {p \in ShortLeafLists \X (0..MaxLeafPairs) \X (BadKids \cup {ThirdLevel}) :
                   p[2] \in Cuts(p[1])}}

\* a pair whose file cannot be read as XML, before or after a pair of
\* LeafPairs: a file named factur-x.xml that is no XML, the name order-x.xml
\* before a reference to a number
UnreadableMatchTrees ==
    {DictionaryObject("/Names" :> ArrayObject(Flat(ps))) :
        ps \in UNION {{<<b, p>>, <<p, b>>} :
                  <<b, p>> \in {NamePair(FACTURX_FILENAME, BLOB),
                                <<createStringObject(ORDERX_FILENAME),
                                  IndirectObject(NumberObject(7))>>} \X LeafPairs}}

NameTrees ==
    DirectTrees \cup OneLevelTrees \cup TwoLevelTrees
    \cup BrokenChildTrees \cup BrokenGrandchildTrees \cup UnreadableMatchTrees
    \cup {DictionaryObject("/Limits" :> ArrayObject(<<>>)),
          DictionaryObject("/Names" :> NameObject("/None")),
          DictionaryObject("/Kids" :> NumberObject(7))}

Catalog(entries) == DictionaryObject(("/Type" :> NameObject("/Catalog")) @@ entries)

\* the source PDFs of the reader: no /Names, a /Names that is no dictionary
\* (direct or behind a reference), no /EmbeddedFiles, an /EmbeddedFiles that
\* is no dictionary, and every name tree above behind indirect references
NameTreePdfs ==
    {PdfFile(Catalog(e), <<>>, EmptyDict) :
        e \in {EmptyDict,
               "/Names" :> ArrayObject(<<>>),
               "/Names" :> IndirectObject(NumberObject(7)),
               "/Names" :> DictionaryObject("/Dests" :> NumberObject(7)),
               "/Names" :> DictionaryObject("/EmbeddedFiles" :> NumberObject(7))}}
    \cup
    {PdfFile(Catalog("/Names" :> IndirectObject(
                 DictionaryObject("/EmbeddedFiles" :> IndirectObject(tree)))),
             <<>>, EmptyDict) : tree \in NameTrees}

(* ------------------------------- calls --------------------------------- *)

NoCall == [op |-> "none"]

\* the filenames arguments of the calls: the default, a caller's own list,
\* and a string where a list is expected
GetXmlFromPdf(pdf_file, check_xsd, filenames) ==
    /\ result' = [op |-> "get_xml_from_pdf", pdf_file |-> PyBool(pdf_file # None),
                  check_xsd |-> check_xsd, filenames |-> filenames,
                  out |-> get_xml_from_pdf(pdf_file, check_xsd, filenames)]
    /\ UNCHANGED pdf

GetFacturxXmlFromPdf(check_xsd) ==
    /\ result' = [op |-> "get_facturx_xml_from_pdf", pdf_file |-> PyBool(TRUE),
                  check_xsd |-> check_xsd,
                  filenames |-> PyList(<<FACTURX_FILENAME>> \o ZUGFERD_FILENAMES),
                  out |-> get_facturx_xml_from_pdf(pdf, check_xsd)]
    /\ UNCHANGED pdf

GetOrderxXmlFromPdf(check_xsd) ==
    /\ result' = [op |-> "get_orderx_xml_from_pdf", pdf_file |-> PyBool(TRUE),
                  check_xsd |-> check_xsd,
                  filenames |-> PyList(<<ORDERX_FILENAME>>),
                  out |-> get_orderx_xml_from_pdf(pdf, check_xsd)]
    /\ UNCHANGED pdf

InitRead == pdf \in NameTreePdfs /\ result = NoCall

NextRead ==
    \/ \E pdf_file \in {pdf, None},
          check_xsd \in {PyBool(TRUE), PyBool(FALSE), PyStr("True")},
          filenames \in {PyList(<<>>), PyList(<<ORDERX_FILENAME, FACTURX_FILENAME>>),
                         PyStr(FACTURX_FILENAME)} :
           GetXmlFromPdf(pdf_file, check_xsd, filenames)
    \/ \E check_xsd \in {PyBool(TRUE), PyBool(FALSE)} : GetFacturxXmlFromPdf(check_xsd)
    \/ \E check_xsd \in {PyBool(TRUE), PyBool(FALSE)} : GetOrderxXmlFromPdf(check_xsd)

SpecRead == InitRead /\ [][NextRead]_vars

(* --------------------------- Python library ---------------------------- *)
(* Strings the code formats are kept as the sequence of their parts.       *)

PyDict(d) == [py |-> "dict", d |-> d]

PyEtree(root) == [py |-> "etree", root |-> root]

PyDatetime(Y, m, d, H, M, S) ==
    [py |-> "datetime", Y |-> Y, m |-> m, d |-> d, H |-> H, M |-> M, S |-> S]

\* dict.get(key, default)
get(d, key, default) == IF key \in DOMAIN d THEN d[key] ELSE default

\* str.upper() on the levels and order types
upper(s) ==
    CASE s = "basic" -> "BASIC"
      [] s = "comfort" -> "COMFORT"
      [] s = "extended" -> "EXTENDED"
      [] s = "order" -> "ORDER"
      [] s = "order_change" -> "ORDER_CHANGE"
      [] s = "order_response" -> "ORDER_RESPONSE"
      [] s = "minimum" -> "MINIMUM"
      [] s = "basicwl" -> "BASICWL"
      [] s = "en16931" -> "EN16931"
      [] OTHER -> s

\* str.capitalize() on the relationships
capitalize(s) ==
    CASE s = "data" -> "Data"
      [] s = "source" -> "Source"
      [] s = "alternative" -> "Alternative"
      [] s = "supplement" -> "Supplement"
      [] s = "unspecified" -> "Unspecified"
      [] OTHER -> s

\* str.replace(old, new) on the argument strings the calls use
replace(s, old, new) ==
    CASE s = "basic wl" /\ old = " " /\ new = "" -> "basicwl"
      [] s = "order-response" /\ old = "-" /\ new = "_" -> "order_response"
      [] s = "order response" /\ old = " " /\ new = "_" -> "order_response"
      [] s = "fr_FR" /\ old = "_" /\ new = "-" -> "fr-FR"
      [] s = "text/plain" /\ old = "/" /\ new = "#2f" -> "text#2fplain"
      [] s = "application/pdf" /\ old = "/" /\ new = "#2f" -> "application#2fpdf"
      [] s = "application/octet-stream" /\ old = "/" /\ new = "#2f" ->
             "application#2foctet-stream"
      [] OTHER -> s

\* the code points of the file names of the calls
ord(s) ==
    CASE s = "Z.pdf" -> <<90, 46, 112, 100, 102>>
      [] s = "a.txt" -> <<97, 46, 116, 120, 116>>
      [] s = "g.bin" -> <<103, 46, 98, 105, 110>>
      [] s = "factur-x.xml" ->
             <<102, 97, 99, 116, 117, 114, 45, 120, 46, 120, 109, 108>>
      [] s = "order-x.xml" -> <<111, 114, 100, 101, 114, 45, 120, 46, 120, 109, 108>>
      [] s = "zugferd-invoice.xml" ->
             <<122, 117, 103, 102, 101, 114, 100, 45, 105, 110, 118, 111, 105, 99,
               101, 46, 120, 109, 108>>
      [] s = "ZUGFeRD-invoice.xml" ->
             <<90, 85, 71, 70, 101, 82, 68, 45, 105, 110, 118, 111, 105, 99,
               101, 46, 120, 109, 108>>

RECURSIVE LessCodePoints(_, _)

\* a < b of two str values: code point by code point, a prefix first
LessCodePoints(a, b) ==
    IF b = <<>> THEN FALSE
    ELSE IF a = <<>> THEN TRUE
    ELSE IF a[1] # b[1] THEN a[1] < b[1]
    ELSE LessCodePoints(Tail(a), Tail(b))

StrLess(a, b) == LessCodePoints(ord(a), ord(b))

\* hashlib.md5(data).hexdigest()
md5(data) == [md5 |-> data]

\* str(len(data))
str(n) == [decimal |-> n]

\* mimetypes.guess_type(filename)[0]
guess_type(filename) ==
    CASE filename = "a.txt" -> PyStr("text/plain")
      [] filename = "Z.pdf" -> PyStr("application/pdf")
      [] OTHER -> None

\* the files of the file system: their content and modification time
Files ==
    "/data/Z.pdf" :> [data |-> <<37, 80, 68, 70>>,
                      mtime |-> PyDatetime("2020", "01", "31", "08", "30", "00")]

\* the readings of the clock during one call: the one stamped on the
\* embedded file, the one of the XMP packet, the one of the /Info dictionary
ClockReads ==
    {[file |-> PyDatetime("2026", "11", "02", "12", "00", "00"),
      xmp |-> PyDatetime("2026", "11", "02", "12", "00", "01"),
      info |-> PyDatetime("2026", "11", "02", "12", "00", "01")]}

\* the version string of _version.py
__version__ == "3.1"

(* -------------------------- MetadataComposer --------------------------- *)

\* date: a datetime, or None for the clock's reading `now`
_get_pdf_timestamp(date, now) ==
    LET dt == IF date = None THEN now ELSE date
    IN  <<"D:", dt.Y, dt.m, dt.d, dt.H, dt.M, dt.S, "+00'00'">>

_get_metadata_timestamp(now) ==
    <<now.Y, "-", now.m, "-", now.d, "T", now.H, ":", now.M, ":", now.S, "+00:00">>

_prepare_pdf_metadata_txt(pdf_metadata, now) ==
    LET pdf_date == _get_pdf_timestamp(None, now)
    IN  ("/Author" :> get(pdf_metadata, "author", PyStr(<<>>))) @@
        ("/CreationDate" :> pdf_date) @@
        ("/Creator" :> <<"factur-x Python lib v", __version__, " by Alexis de Lattre">>) @@
        ("/Keywords" :> get(pdf_metadata, "keywords", PyStr(<<>>))) @@
        ("/ModDate" :> pdf_date) @@
        ("/Subject" :> get(pdf_metadata, "subject", PyStr(<<>>))) @@
        ("/Title" :> get(pdf_metadata, "title", PyStr(<<>>)))

\* the XMP packet: the values the template is filled with
_prepare_pdf_metadata_xml(flavor, level, orderx_type, pdf_metadata, now) ==
    LET documenttype == IF flavor = "order-x" THEN upper(orderx_type) ELSE "INVOICE"
        xml_filename == IF flavor = "order-x" THEN ORDERX_FILENAME ELSE FACTURX_FILENAME
        xmp_level == IF flavor = "order-x" THEN upper(level) ELSE FACTURX_LEVEL2xmp[level]
        urn == IF flavor = "order-x"
               THEN "urn:factur-x:pdfa:CrossIndustryDocument:1p0#"
               ELSE "urn:factur-x:pdfa:CrossIndustryDocument:invoice:1p0#"
    IN  IF flavor # "order-x" /\ level \notin DOMAIN FACTURX_LEVEL2xmp
        THEN Raise("KeyError: level")
        ELSE Return([xpacket |->
                 [title |-> get(pdf_metadata, "title", PyStr(<<>>)),
                  author |-> get(pdf_metadata, "author", PyStr(<<>>)),
                  subject |-> get(pdf_metadata, "subject", PyStr(<<>>)),
                  producer |-> "PyPDF4",
                  creator_tool |->
                      <<"factur-x python lib v", __version__, " by Alexis de Lattre">>,
                  timestamp |-> _get_metadata_timestamp(now),
                  namespaceURI |-> urn,
                  xmlns_fx |-> urn,
                  documenttype |-> documenttype,
                  xml_filename |-> xml_filename,
                  version |-> "1.0",
                  xmp_level |-> xmp_level]])

\* datetime.strptime(date, '%Y%m%d') on the text of the issue date
strptime(date) ==
    PyDatetime(date[1], date[2], date[3], "00", "00", "00")

\* datetime.strftime(date, '%Y-%m-%d')
strftime(date) == <<date.Y, "-", date.m, "-", date.d>>

_extract_base_info(facturx_xml_etree) ==
    LET info == facturx_xml_etree.base_info
    IN  IF ~info.present THEN Raise("IndexError: list index out of range")
        ELSE Return([seller |-> info.seller, buyer |-> info.buyer,
                     number |-> info.number, date |-> strptime(info.date),
                     doc_type |-> facturx_xml_etree.typecode])

\* (a variant of _base_info2pdf_metadata that describes every document from
\* the side of the seller, as Factur-X)
_base_info2pdf_metadata_of_the_seller(base_info) ==
    LET doc_type_map == ("220" :> "Order") @@ ("230" :> "Order Change") @@
                        ("231" :> "Order Response") @@ ("380" :> "Invoice") @@
                        ("381" :> "Refund")
        doc_type_name == get(doc_type_map, base_info.doc_type, "Invoice")
    IN  ("author" :> PyStr(<<base_info.seller>>)) @@
        ("keywords" :> PyStr(<<doc_type_name, ", ", "Factur-X">>)) @@
        ("title" :> PyStr(<<base_info.seller, ": ", doc_type_name, " ",
                            base_info.number>>)) @@
        ("subject" :> PyStr(<<doc_type_name, " ", base_info.number, " dated ">> \o
                            strftime(base_info.date) \o
                            <<" issued by ", base_info.seller>>))

\* lines 721-759
_base_info2pdf_metadata(base_info) ==
    LET doc_type_map == ("220" :> "Order") @@ ("230" :> "Order Change") @@
                        ("231" :> "Order Response") @@ ("380" :> "Invoice") @@
                        ("381" :> "Refund")
        doc_type_name == get(doc_type_map, base_info.doc_type, "Invoice")
        date_str == strftime(base_info.date)
        seller == base_info.seller
        buyer == base_info.buyer
        number == base_info.number
        title == IF base_info.doc_type = "231"
                 THEN <<seller, ": Order Response on Order ", number, " from ", buyer>>
                 ELSE IF base_info.doc_type \in {"220", "230"}
                 THEN <<buyer, ": ", doc_type_name, " ", number>>
                 ELSE <<seller, ": ", doc_type_name, " ", number>>
        subject == IF base_info.doc_type = "231"
                   THEN <<"Response of ", seller, " on ">> \o date_str \o
                        <<" to order ", number, " from ", buyer>>
                   ELSE IF base_info.doc_type \in {"220", "230"}
                   THEN <<doc_type_name, " ", number, " issued by ", buyer, " on ">>
                        \o date_str
                   ELSE <<doc_type_name, " ", number, " dated ">> \o date_str \o
                        <<" issued by ", seller>>
        doc_x == IF base_info.doc_type \in {"220", "230", "231"}
                 THEN "Order-X" ELSE "Factur-X"
        author == IF base_info.doc_type \in {"220", "230"} THEN buyer ELSE seller
    IN  ("author" :> PyStr(<<author>>)) @@
        ("keywords" :> PyStr(<<doc_type_name, ", ", doc_x>>)) @@
        ("title" :> PyStr(title)) @@
        ("subject" :> PyStr(subject))

(* ------------------------- AttachmentAssembler ------------------------- *)
(* The PdfFileWriter is the list of the objects added to it, its catalog,  *)
(* its /Info dictionary, the pages and the /ID of its trailer.  A Python   *)
(* dict that is iterated is the sequence of its items in insertion order.  *)

\* d[key] = value on the items of a dict
SetItem(items, key, value) ==
    IF \E i \in 1..Len(items) : items[i][1] = key
    THEN [i \in 1..Len(items) |->
             IF items[i][1] = key THEN <<key, value>> ELSE items[i]]
    ELSE Append(items, <<key, value>>)

\* (a variant of sorted that leaves the items in insertion order)
insertion_order(items) == items

RECURSIVE sorted(_)

\* sorted(items, key=lambda x: x[0]): the keys are text strings and compare
\* as str
sorted(items) ==
    IF items = <<>> THEN <<>>
    ELSE LET least == CHOOSE i \in 1..Len(items) :
                 \A j \in 1..Len(items) : ~StrLess(items[j][1].s, items[i][1].s)
             others == [k \in 1..(Len(items) - 1) |->
                           IF k < least THEN items[k] ELSE items[k + 1]]
         IN  <<items[least]>> \o sorted(others)

\* (a variant of attachment_afrelationship that stores what the dict holds)
requested_afrelationship(file_dict) ==
    LET requested == get(file_dict, "afrelationship", None)
    IN  IF requested.py = "str" THEN requested.s ELSE "unspecified"

\* lines 545-547: the relationship of an additional attachment
attachment_afrelationship(file_dict) ==
    LET requested == get(file_dict, "afrelationship", None)
    IN  IF requested.py = "str" /\ requested.s \in ATTACHMENTS_AFRelationship
        THEN requested.s ELSE "unspecified"

\* the writer after _filespec_additional_attachments, with the
\* name_arrayobj_cdict it extends in place
_filespec_additional_attachments(pdf_filestream, name_arrayobj_cdict, file_dict, filename) ==
    LET filedata == file_dict["filedata"].b
        modified == get(file_dict, "modification_datetime", None)
        created == get(file_dict, "creation_datetime", None)
        params_dict ==
            (IF created.py = "datetime"
             THEN "/CreationDate" :> createStringObject(_get_pdf_timestamp(created, None))
             ELSE EmptyDict) @@
            (IF modified.py = "datetime"
             THEN "/ModDate" :> createStringObject(_get_pdf_timestamp(modified, None))
             ELSE EmptyDict) @@
            ("/CheckSum" :> createStringObject(md5(filedata))) @@
            ("/Size" :> NameObject(str(Len(filedata))))
        guessed == guess_type(filename)
        file_mimetype == IF Falsy(guessed) THEN "application/octet-stream" ELSE guessed.s
        file_mimetype_insert == <<"/", replace(file_mimetype, "/", "#2f")>>
        file_entry ==
            flateEncode(("/Type" :> NameObject("/EmbeddedFile")) @@
                        ("/Params" :> DictionaryObject(params_dict)) @@
                        ("/Subtype" :> NameObject(file_mimetype_insert)),
                        filedata)
        file_entry_obj == IndirectObject(file_entry)
        ef_dict == DictionaryObject("/F" :> file_entry_obj)
        fname_obj == createStringObject(filename)
        afrelationship == attachment_afrelationship(file_dict)
        filespec_dict ==
            DictionaryObject(
                ("/AFRelationship" :> NameObject(<<"/", capitalize(afrelationship)>>)) @@
                ("/Desc" :> createStringObject(get(file_dict, "description", PyStr(<<>>)).s)) @@
                ("/Type" :> NameObject("/Filespec")) @@
                ("/F" :> fname_obj) @@
                ("/EF" :> ef_dict) @@
                ("/UF" :> fname_obj))
        filespec_obj == IndirectObject(filespec_dict)
    IN  IF "filedata" \notin DOMAIN file_dict THEN Raise("KeyError: 'filedata'")
        ELSE Return([writer |-> [pdf_filestream EXCEPT
                                    !.objects = @ \o <<file_entry, filespec_dict>>],
                     cdict |-> SetItem(name_arrayobj_cdict, fname_obj, filespec_obj)])

RECURSIVE AddAttachments(_, _, _)

\* the for loop of line 618, from item i of additional_attachments on;
\* state: the writer and name_arrayobj_cdict
AddAttachments(state, additional_attachments, i) ==
    IF i > Len(additional_attachments) THEN Return(state)
    ELSE IF ~_filespec_additional_attachments(
                 state.writer, state.cdict,
                 additional_attachments[i][2], additional_attachments[i][1]).ok
    THEN _filespec_additional_attachments(
             state.writer, state.cdict,
             additional_attachments[i][2], additional_attachments[i][1])
    ELSE AddAttachments(
             _filespec_additional_attachments(
                 state.writer, state.cdict,
                 additional_attachments[i][2], additional_attachments[i][1]).value,
             additional_attachments, i + 1)

\* name_arrayobj_content_final of lines 625-628
name_arrayobj_content_final(name_arrayobj_content_sort) ==
    Flat(name_arrayobj_content_sort)

\* (a variant of af_list that lists the file specifications from the last
\* to the first)
af_list_backwards(name_arrayobj_content_sort) ==
    [i \in 1..Len(name_arrayobj_content_sort) |->
        name_arrayobj_content_sort[Len(name_arrayobj_content_sort) + 1 - i][2]]

\* af_list of lines 626-629
af_list(name_arrayobj_content_sort) ==
    [i \in 1..Len(name_arrayobj_content_sort) |-> name_arrayobj_content_sort[i][2]]

RECURSIVE AddOutputIntents(_, _, _, _)

\* the for loop of line 640: the writer and res_output_intents after it
AddOutputIntents(pdf_filestream, output_intents, i, res_output_intents) ==
    IF i > Len(output_intents)
    THEN [writer |-> pdf_filestream, res |-> res_output_intents]
    ELSE LET dest_output_profile_dict == output_intents[i][2]
             output_intent_dict ==
                 [output_intents[i][1] EXCEPT !.d =
                     ("/DestOutputProfile" :> IndirectObject(dest_output_profile_dict))
                     @@ @]
         IN  AddOutputIntents(
                 [pdf_filestream EXCEPT
                     !.objects = @ \o <<dest_output_profile_dict, output_intent_dict>>],
                 output_intents, i + 1,
                 Append(res_output_intents, IndirectObject(output_intent_dict)))

\* lines 577-592: the stream of the XML file
xml_file_entry(xml_bytes, now) ==
    flateEncode(("/Type" :> NameObject("/EmbeddedFile")) @@
                ("/Params" :> DictionaryObject(
                    ("/CheckSum" :> createStringObject(md5(xml_bytes))) @@
                    ("/ModDate" :> createStringObject(_get_pdf_timestamp(None, now))) @@
                    ("/Size" :> NameObject(str(Len(xml_bytes)))))) @@
                ("/Subtype" :> NameObject("/text#2Fxml")),
                xml_bytes)

\* lines 595-615: the file specification of the XML file
xml_filespec_dict(file_entry_obj, flavor, afrelationship) ==
    DictionaryObject(
        ("/AFRelationship" :> NameObject(<<"/", capitalize(afrelationship)>>)) @@
        ("/Desc" :> createStringObject(IF flavor = "order-x" THEN "Order-X XML file"
                                       ELSE "Factur-X XML file")) @@
        ("/Type" :> NameObject("/Filespec")) @@
        ("/F" :> createStringObject(IF flavor = "order-x" THEN ORDERX_FILENAME
                                    ELSE FACTURX_FILENAME)) @@
        ("/EF" :> DictionaryObject(("/F" :> file_entry_obj) @@ ("/UF" :> file_entry_obj))) @@
        ("/UF" :> createStringObject(IF flavor = "order-x" THEN ORDERX_FILENAME
                                     ELSE FACTURX_FILENAME)))

\* lines 593, 616-617: the two objects added to the writer, and the
\* name_arrayobj_cdict that starts with the XML file
add_xml_file(pdf_filestream, file_entry, filespec_dict) ==
    [writer |-> [pdf_filestream EXCEPT !.objects = @ \o <<file_entry, filespec_dict>>],
     cdict |-> <<<<filespec_dict.d["/F"], IndirectObject(filespec_dict)>>>>]

\* lines 653-660: the stream of the XMP packet
metadata_file_entry(metadata_xml_bytes) ==
    flateEncode(("/Subtype" :> NameObject("/XML")) @@ ("/Type" :> NameObject("/Metadata")),
                metadata_xml_bytes)

\* lines 622-679: the names sorted, the output intents, the root and /Info
update_root(pdf_filestream, name_arrayobj_content_sort, res_output_intents, metadata_xml_bytes, lang, metadata_txt_dict) ==
    IF ~metadata_xml_bytes.ok THEN metadata_xml_bytes
    ELSE Return(
        [pdf_filestream EXCEPT
            !.objects = @ \o <<metadata_file_entry(metadata_xml_bytes.value),
                               ArrayObject(af_list(name_arrayobj_content_sort))>>,
            !.root =
                (IF res_output_intents # <<>>
                 THEN "/OutputIntents" :> ArrayObject(res_output_intents) ELSE EmptyDict) @@
                (IF ~Falsy(lang)
                 THEN "/Lang" :> createStringObject(replace(lang.s, "_", "-"))
                 ELSE EmptyDict) @@
                ("/AF" :> IndirectObject(ArrayObject(af_list(name_arrayobj_content_sort)))) @@
                ("/Metadata" :>
                    IndirectObject(metadata_file_entry(metadata_xml_bytes.value))) @@
                ("/Names" :> DictionaryObject(
                    "/EmbeddedFiles" :> DictionaryObject(
                        "/Names" :> ArrayObject(
                            name_arrayobj_content_final(name_arrayobj_content_sort))))) @@
                ("/PageMode" :> NameObject("/UseAttachments")) @@
                @,
            !.info = metadata_txt_dict @@ @])

\* the loop of line 618 has ended or raised; intents: the writer and
\* res_output_intents after the loop of line 640
after_attachments(added, intents, metadata_xml_bytes, lang, metadata_txt_dict) ==
    IF ~added.ok THEN added
    ELSE update_root(intents.writer, sorted(added.value.cdict), intents.res,
                     metadata_xml_bytes, lang, metadata_txt_dict)

\* the loop of line 618 has ended or raised
add_output_intents(added, output_intents, metadata_xml_bytes, lang, metadata_txt_dict) ==
    after_attachments(
        added,
        AddOutputIntents(added.value.writer, output_intents, 1, <<>>),
        metadata_xml_bytes, lang, metadata_txt_dict)

_facturx_update_metadata_add_attachment(pdf_filestream, xml_bytes, pdf_metadata, flavor, level, orderx_type, lang, output_intents, additional_attachments, afrelationship, now) ==
    IF flavor = "order-x" /\ ~(orderx_type.py = "str" /\ orderx_type.s \in ORDERX_TYPES)
    THEN Raise("ValueError: wrong value for orderx_type")
    ELSE IF afrelationship \notin XML_AFRelationship
    THEN Raise("ValueError: wrong value for afrelationship")
    ELSE add_output_intents(
             AddAttachments(
                 add_xml_file(
                     pdf_filestream, xml_file_entry(xml_bytes, now.file),
                     xml_filespec_dict(IndirectObject(xml_file_entry(xml_bytes, now.file)),
                                       flavor, afrelationship)),
                 additional_attachments, 1),
             output_intents,
             _prepare_pdf_metadata_xml(
                 flavor, level, IF orderx_type.py = "str" THEN orderx_type.s ELSE "None",
                 pdf_metadata, now.xmp),
             lang,
             _prepare_pdf_metadata_txt(pdf_metadata, now.info))

RECURSIVE CollectOutputIntents(_, _, _)

\* the for loop of line 850, from element i on; an exception ends it and
\* leaves what was collected
CollectOutputIntents(ori_output_intents, i, output_intents) ==
    IF i > Len(ori_output_intents) THEN output_intents
    ELSE LET ori_output_intent_dict == getObject(ori_output_intents[i])
         IN  IF ~IsDict(ori_output_intent_dict) THEN output_intents
             ELSE IF "/DestOutputProfile" \notin DOMAIN ori_output_intent_dict.d
             THEN output_intents
             ELSE CollectOutputIntents(
                      ori_output_intents, i + 1,
                      Append(output_intents,
                             <<ori_output_intent_dict,
                               GetItem(ori_output_intent_dict, "/DestOutputProfile")>>))

_get_original_output_intents(original_pdf) ==
    LET pdf_root == original_pdf.root
    IN  IF "/OutputIntents" \notin DOMAIN pdf_root.d THEN <<>>
        ELSE IF ~IsList(GetItem(pdf_root, "/OutputIntents")) THEN <<>>
        ELSE CollectOutputIntents(GetItem(pdf_root, "/OutputIntents").a, 1, <<>>)

(* ------------------------ HybridDocumentBuilder ------------------------ *)

\* isinstance(x, (str, unicode)) and the like, by the names of the types
isinstance(x, types) == x.py \in types

\* lines 1119-1139: the payload as bytes, and the tree when one was given
xml_to_bytes(xml) ==
    IF isinstance(xml, {"str", "bytes"})
    THEN Return([xml_root |-> None,
                 xml_bytes |-> IF xml.py = "bytes" THEN xml.b ELSE xml.s])
    ELSE IF isinstance(xml, {"etree"})
    THEN Return([xml_root |-> xml.root, xml_bytes |-> tostring(xml.root)])
    ELSE Raise("TypeError: the second argument must be a string, an etree or a file")

\* (a variant of drop_reserved that attaches every file it is given)
drop_nothing(items) == items

\* lines 1145-1150: the items of attachments without the reserved names
drop_reserved(items) ==
    SelectSeq(items, LAMBDA item : ~InList(item[1], ALL_FILENAMES))

\* (a variant of load_filepath that leaves the dict of the caller as it is)
leave_fadict(fadict) == Return(fadict)

\* lines 1152-1170 for one value of attachments
load_filepath(fadict) ==
    LET filepath == get(fadict, "filepath", None)
        with_data == ("filedata" :> PyBytes(Files[filepath.s].data)) @@ fadict
        with_date == IF Falsy(get(with_data, "modification_datetime", None))
                     THEN ("modification_datetime" :> Files[filepath.s].mtime) @@ with_data
                     ELSE with_data
        requested == get(with_date, "afrelationship", None)
        lowered == IF Falsy(requested) THEN with_date
                   ELSE ("afrelationship" :> PyStr(lower(requested.s))) @@ with_date
        relationship == get(lowered, "afrelationship", None)
    IN  IF Falsy(filepath) \/ ~Falsy(get(fadict, "filedata", None)) THEN Return(fadict)
        ELSE IF filepath.s \notin DOMAIN Files
        THEN Raise("FileNotFoundError: no such file")
        ELSE IF relationship.py = "str" /\ relationship.s \in ATTACHMENTS_AFRelationship
        THEN Return(lowered)
        ELSE Return(("afrelationship" :> PyStr("unspecified")) @@ lowered)

RECURSIVE LoadFilepaths(_, _)

\* the for loop of line 1151, from item i on; the values are the dicts the
\* caller holds, changed where they are: an exception leaves the items as
\* they are by then
LoadFilepaths(items, i) ==
    IF i > Len(items) THEN Return(items)
    ELSE LET loaded == load_filepath(items[i][2])
         IN  IF ~loaded.ok THEN loaded @@ [attachments |-> items]
             ELSE LoadFilepaths([items EXCEPT ![i] = <<items[i][1], loaded.value>>], i + 1)

\* (a variant of restrict_afrelationship that stores what was requested)
keep_afrelationship(flavor, level, afrelationship) == afrelationship

\* lines 1183-1190: the relationship of the XML file for the flavor and level
restrict_afrelationship(flavor, level, afrelationship) ==
    IF flavor = "factur-x" /\ level \in {"minimum", "basicwl"}
       /\ afrelationship \in {"source", "alternative"}
    THEN "data" ELSE afrelationship

\* lines 1205-1207: the values of pdf_metadata that are no strings emptied
clean_up(pdf_metadata) ==
    [key \in DOMAIN pdf_metadata |->
        IF isinstance(pdf_metadata[key], {"str"}) THEN pdf_metadata[key] ELSE PyStr(<<>>)]

\* (a variant of PdfFileWriter that starts from the objects and the catalog
\* of the original document)
PdfFileWriterFromDocument(original_pdf) ==
    [objects |-> original_pdf.objects, root |-> original_pdf.root.d,
     info |-> "/Producer" :> PyStr(<<"PyPDF4">>),
     pages |-> original_pdf.pages, ID |-> original_pdf.ID]

\* (a variant of PdfFileWriter that takes the file specifications of the
\* original along with its pages)
PdfFileWriterWithAttachments(original_pdf) ==
    [objects |-> SelectSeq(original_pdf.objects,
                           LAMBDA o : o.t = "dict" /\ "/Type" \in DOMAIN o.d
                                      /\ o.d["/Type"] = NameObject("/Filespec")),
     root |-> "/Type" :> NameObject("/Catalog"),
     info |-> "/Producer" :> PyStr(<<"PyPDF4">>),
     pages |-> original_pdf.pages, ID |-> original_pdf.ID]

\* lines 1211-1218: a new writer, with the pages and the /ID of the original
PdfFileWriter(original_pdf) ==
    [objects |-> <<>>, root |-> "/Type" :> NameObject("/Catalog"),
     info |-> "/Producer" :> PyStr(<<"PyPDF4">>),
     pages |-> original_pdf.pages, ID |-> original_pdf.ID]

\* PdfFileWriter.write: the file that is written
write(pdf_filestream) ==
    [pages |-> pdf_filestream.pages, objects |-> pdf_filestream.objects,
     root |-> DictionaryObject(pdf_filestream.root), info |-> pdf_filestream.info,
     ID |-> pdf_filestream.ID]

\* (a variant of check_arguments without the check of check_xsd)
check_arguments_but_check_xsd(pdf_file, a) ==
    IF pdf_file = None THEN "ValueError: missing pdf_file argument"
    ELSE IF Falsy(a.xml) THEN "ValueError: missing xml argument"
    ELSE IF ~isinstance(a.flavor, {"str"}) THEN "ValueError: flavor must be a string"
    ELSE IF ~isinstance(a.level, {"str"}) THEN "ValueError: level must be a string"
    ELSE IF ~isinstance(a.orderx_type, {"str", "None"})
    THEN "ValueError: orderx_type must be a string or None"
    ELSE IF ~isinstance(a.pdf_metadata, {"dict", "None"})
    THEN "ValueError: pdf_metadata must be a dict or None"
    ELSE IF ~isinstance(a.lang, {"str", "None"}) THEN "ValueError: lang must be a string or None"
    ELSE IF ~isinstance(a.output_pdf_file, {"str", "None"})
    THEN "ValueError: output_pdf_file must be a string or None"
    ELSE IF ~isinstance(a.attachments, {"dict", "None"})
    THEN "ValueError: attachments must be a dict or None"
    ELSE IF ~isinstance(a.afrelationship, {"str", "None"})
    THEN "ValueError: afrelationship must be a string or None"
    ELSE ""

\* lines 1062-1094: the first argument check that fails, or "" when none does
check_arguments(pdf_file, a) ==
    IF pdf_file = None THEN "ValueError: missing pdf_file argument"
    ELSE IF Falsy(a.xml) THEN "ValueError: missing xml argument"
    ELSE IF ~isinstance(a.flavor, {"str"}) THEN "ValueError: flavor must be a string"
    ELSE IF ~isinstance(a.level, {"str"}) THEN "ValueError: level must be a string"
    ELSE IF ~isinstance(a.orderx_type, {"str", "None"})
    THEN "ValueError: orderx_type must be a string or None"
    ELSE IF ~isinstance(a.check_xsd, {"bool"}) THEN "ValueError: check_xsd must be a boolean"
    ELSE IF ~isinstance(a.pdf_metadata, {"dict", "None"})
    THEN "ValueError: pdf_metadata must be a dict or None"
    ELSE IF ~isinstance(a.lang, {"str", "None"}) THEN "ValueError: lang must be a string or None"
    ELSE IF ~isinstance(a.output_pdf_file, {"str", "None"})
    THEN "ValueError: output_pdf_file must be a string or None"
    ELSE IF ~isinstance(a.attachments, {"dict", "None"})
    THEN "ValueError: attachments must be a dict or None"
    ELSE IF ~isinstance(a.afrelationship, {"str", "None"})
    THEN "ValueError: afrelationship must be a string or None"
    ELSE ""

(* generate_from_file, step by step.  A step takes what the step before    *)
(* it has raised, or the local variables of the function as a record.      *)

\* lines 1062-1113: the arguments checked, then normalised
normalize(pdf_file, a, now) ==
    LET flavor_fix_mapping == ("orderx" :> "order-x") @@ ("facturx" :> "factur-x")
        afrelationship ==
            IF Falsy(a.afrelationship) THEN "data" ELSE lower(a.afrelationship.s)
    IN  IF check_arguments(pdf_file, a) # "" THEN Raise(check_arguments(pdf_file, a))
        ELSE Return(
            [pdf_file |-> pdf_file, now |-> now,
             flavor |-> get(flavor_fix_mapping, lower(a.flavor.s), lower(a.flavor.s)),
             level |-> replace(lower(a.level.s), " ", ""),
             orderx_type |->
                 IF Falsy(a.orderx_type) THEN a.orderx_type
                 ELSE PyStr(replace(replace(lower(a.orderx_type.s), "-", "_"), " ", "_")),
             afrelationship |->
                 IF afrelationship \notin XML_AFRelationship THEN "data" ELSE afrelationship,
             warnings |->
                 IF afrelationship \notin XML_AFRelationship
                 THEN {"wrong value for afrelationship, forcing it to data"} ELSE {},
             check_xsd |-> ~Falsy(a.check_xsd), pdf_metadata |-> a.pdf_metadata, lang |-> a.lang,
             output_pdf_file |-> a.output_pdf_file, attachments |-> a.attachments,
             xml |-> a.xml, xml_bytes |-> <<>>, parsed |-> [ok |-> FALSE],
             classified |-> {}])

\* lines 1119-1139; xml_root is parsed where the function first needs it,
\* which is where a syntax error is raised
read_xml(r) ==
    LET xml == xml_to_bytes(r.value.xml)
    IN  IF ~r.ok THEN r
        ELSE IF ~xml.ok THEN xml
        ELSE Return([r.value EXCEPT
                        !.xml_bytes = xml.value.xml_bytes,
                        !.parsed = IF xml.value.xml_root # None
                                   THEN [ok |-> TRUE, root |-> xml.value.xml_root]
                                   ELSE fromstring(xml.value.xml_bytes)])

\* lines 1140-1170; attachments becomes the sequence of the items kept
prepare_attachments(r) ==
    LET given == IF r.value.attachments = None THEN <<>> ELSE r.value.attachments.items
        loaded == LoadFilepaths(drop_reserved(given), 1)
    IN  IF ~r.ok THEN r
        ELSE IF ~loaded.ok THEN loaded
        ELSE Return([r.value EXCEPT
                        !.attachments = loaded.value,
                        !.warnings =
                            IF Len(loaded.value) # Len(given)
                            THEN @ \cup {"reserved file name, file not attached"} ELSE @])

\* an exception of lines 1171-1225: attachments is the dict the caller
\* holds, which lines 1145-1170 have changed where it is, and it stays as
\* they have left it
raised(r, exception) == exception @@ [attachments |-> r.value.attachments]

\* (a variant of classify_flavor that reads the flavor from the payload
\* whatever the caller has given)
classify_flavor_always(r) ==
    LET xml_root == r.value.parsed
    IN  IF ~r.ok THEN r
        ELSE IF ~xml_root.ok THEN raised(r, Raise("XMLSyntaxError"))
        ELSE IF ~get_flavor(xml_root.root).ok THEN raised(r, get_flavor(xml_root.root))
        ELSE Return([r.value EXCEPT !.flavor = get_flavor(xml_root.root).value,
                                    !.classified = @ \cup {"flavor"}])

\* lines 1171-1175; classified: the values read from the payload so far
classify_flavor(r) ==
    LET xml_root == r.value.parsed
    IN  IF ~r.ok THEN r
        ELSE IF r.value.flavor \in {"factur-x", "order-x"} THEN r
        ELSE IF ~xml_root.ok THEN raised(r, Raise("XMLSyntaxError"))
        ELSE IF ~get_flavor(xml_root.root).ok THEN raised(r, get_flavor(xml_root.root))
        ELSE Return([r.value EXCEPT !.flavor = get_flavor(xml_root.root).value,
                                    !.classified = @ \cup {"flavor"}])

\* lines 1176-1182
classify_level(r) ==
    LET xml_root == r.value.parsed
    IN  IF ~r.ok THEN r
        ELSE IF ~(\/ r.value.flavor = "factur-x" /\
                     r.value.level \notin DOMAIN FACTURX_LEVEL2xsd
                  \/ r.value.flavor = "order-x" /\
                     r.value.level \notin DOMAIN ORDERX_LEVEL2xsd)
        THEN r
        ELSE IF ~xml_root.ok THEN raised(r, Raise("XMLSyntaxError"))
        ELSE IF ~get_level(xml_root.root).ok THEN raised(r, get_level(xml_root.root))
        ELSE Return([r.value EXCEPT !.level = get_level(xml_root.root).value,
                                    !.classified = @ \cup {"level"}])

\* lines 1183-1190
restrict(r) ==
    IF ~r.ok THEN r
    ELSE Return(
        [r.value EXCEPT
            !.afrelationship = restrict_afrelationship(r.value.flavor, r.value.level, @),
            !.warnings =
                IF restrict_afrelationship(r.value.flavor, r.value.level,
                                           r.value.afrelationship)
                   # r.value.afrelationship
                THEN @ \cup {"afrelationship switched to data for the profile"}
                ELSE @])

\* (a variant of classify_orderx_type that leaves the order type as the
\* caller gave it)
keep_orderx_type(r) == r

\* lines 1191-1194
classify_orderx_type(r) ==
    LET xml_root == r.value.parsed
    IN  IF ~r.ok THEN r
        ELSE IF ~(r.value.flavor = "order-x" /\
                  ~(r.value.orderx_type.py = "str" /\
                    r.value.orderx_type.s \in ORDERX_TYPES))
        THEN r
        ELSE IF ~xml_root.ok THEN raised(r, Raise("XMLSyntaxError"))
        ELSE IF ~get_orderx_type(xml_root.root).ok THEN raised(r, get_orderx_type(xml_root.root))
        ELSE Return([r.value EXCEPT
                        !.orderx_type = PyStr(get_orderx_type(xml_root.root).value),
                        !.classified = @ \cup {"orderx_type"}])

\* (a variant of validate that lets every payload pass)
validate_nothing(r) == r

\* lines 1195-1197
validate(r) ==
    LET checked == xml_check_xsd(r.value.xml_bytes, FALSE, r.value.flavor, r.value.level)
    IN  IF ~r.ok THEN r
        ELSE IF r.value.check_xsd /\ ~checked.ok THEN raised(r, checked)
        ELSE r

\* lines 1198-1207
prepare_metadata(r) ==
    LET xml_root == r.value.parsed
        base_info == _extract_base_info(xml_root.root)
    IN  IF ~r.ok THEN r
        ELSE IF r.value.pdf_metadata # None
        THEN Return([r.value EXCEPT !.pdf_metadata = clean_up(@.d)])
        ELSE IF ~xml_root.ok THEN raised(r, Raise("XMLSyntaxError"))
        ELSE IF ~base_info.ok THEN raised(r, base_info)
        ELSE Return([r.value EXCEPT
                        !.pdf_metadata = _base_info2pdf_metadata(base_info.value)])

\* lines 1226-1241: the writer written to the output file or over pdf_file
write_output(local, updated) ==
    IF ~updated.ok THEN updated @@ [attachments |-> local.attachments]
    ELSE [ok |-> TRUE, value |-> TRUE,
          written |-> write(updated.value),
          to |-> IF Falsy(local.output_pdf_file) THEN "pdf_file" ELSE "output_pdf_file",
          flavor |-> local.flavor, level |-> local.level,
          orderx_type |-> local.orderx_type, afrelationship |-> local.afrelationship,
          pdf_metadata |-> local.pdf_metadata, attachments |-> local.attachments,
          warnings |-> local.warnings, classified |-> local.classified]

\* lines 1208-1225 and the writing
assemble(r) ==
    IF ~r.ok THEN r
    ELSE write_output(
             r.value,
             _facturx_update_metadata_add_attachment(
                 PdfFileWriter(r.value.pdf_file), r.value.xml_bytes, r.value.pdf_metadata,
                 r.value.flavor, r.value.level, r.value.orderx_type, r.value.lang,
                 _get_original_output_intents(r.value.pdf_file), r.value.attachments,
                 r.value.afrelationship, r.value.now))

\* pdf_file: the open file of the PDF; a: the other arguments; now: the
\* readings of the clock
generate_from_file(pdf_file, a, now) ==
    assemble(prepare_metadata(validate(classify_orderx_type(restrict(
        classify_level(classify_flavor(prepare_attachments(read_xml(
            normalize(pdf_file, a, now))))))))))

\* NamedTemporaryFile(prefix='facturx-', suffix='.pdf'): a file that exists
\* from its creation until it is closed; log is what has happened to it
NamedTemporaryFile == [exists |-> TRUE, content |-> None, log |-> <<"created">>]

\* f.write(pdf_file)
f_write(f, pdf_file) == [f EXCEPT !.content = pdf_file, !.log = Append(@, "written")]

\* (a variant of __exit__ that leaves the file where it is)
keep_file(f) == f

\* the end of the `with` block, reached by the last statement and by an
\* exception alike: the file is closed, and removed as it is closed
__exit__(f) ==
    IF f.exists
    THEN [f EXCEPT !.exists = FALSE, !.content = None, !.log = Append(@, "removed")]
    ELSE f

\* lines 948-955 once generate_from_file has run on the temporary file f:
\* an exception leaves the block; otherwise the file is read back and its
\* content returned
read_back(f, generated) ==
    IF ~generated.ok
    THEN [f |-> __exit__([f EXCEPT !.log = Append(@, "embed")])] @@ generated
    ELSE [f |-> __exit__([f EXCEPT !.content = generated.written,
                                    !.log = @ \o <<"embed", "read">>])]
         @@ [generated EXCEPT !.value = generated.written]

\* generate_from_binary: pdf_file are the bytes of a PDF, written to a
\* temporary file that generate_from_file rewrites and that is read back
generate_from_binary(pdf_file, a, now) ==
    IF pdf_file = None THEN Raise("ValueError: pdf_invoice argument must be a string")
    ELSE read_back(f_write(NamedTemporaryFile, pdf_file),
                   generate_from_file(pdf_file, [a EXCEPT !.output_pdf_file = None], now))

(* ------------------------------- embedding ----------------------------- *)

\* a PDF without attachments, and a PDF/A-3 that another tool has already
\* made hybrid: XMP metadata, an output intent, an /ID, and two embedded
\* files in a name tree
HybridPdf ==
    LET old_metadata == StreamObject(("/Type" :> NameObject("/Metadata")) @@
                                     ("/Subtype" :> NameObject("/XML")),
                                     [xpacket |-> [producer |-> "another tool"]])
        icc == StreamObject("/N" :> NumberObject(3), <<0, 0, 2, 12>>)
        intent == DictionaryObject(("/Type" :> NameObject("/OutputIntent")) @@
                                   ("/S" :> NameObject("/GTS_PDFA1")) @@
                                   ("/DestOutputProfile" :> IndirectObject(icc)))
        names == Flat(<<NamePair("a.txt", BLOB),
                        NamePair(FACTURX_FILENAME, FX_MINIMUM.bytes)>>)
    IN  [PdfFile(Catalog(("/Metadata" :> IndirectObject(old_metadata)) @@
                         ("/OutputIntents" :> ArrayObject(<<IndirectObject(intent)>>)) @@
                         ("/Names" :> DictionaryObject(
                             "/EmbeddedFiles" :> DictionaryObject(
                                 "/Names" :> ArrayObject(names))))),
                 <<old_metadata, icc, intent, getObject(names[2]), getObject(names[4])>>,
                 "/Producer" :> PyStr(<<"another tool">>))
         EXCEPT !.ID = ArrayObject(<<createStringObject("id-1"), createStringObject("id-2")>>)]

\* a PDF without embedded files, and the hybrid one
SourcePdfs == {PdfFile(Catalog(EmptyDict), <<>>, EmptyDict), HybridPdf}

\* the arguments of a call, the ones not listed at their defaults
Arguments(xml, flavor, level, check_xsd, pdf_metadata, attachments, afrelationship) ==
    [xml |-> xml, flavor |-> flavor, level |-> level, orderx_type |-> PyStr("autodetect"),
     check_xsd |-> PyBool(check_xsd), pdf_metadata |-> pdf_metadata, lang |-> None,
     output_pdf_file |-> None, attachments |-> attachments,
     afrelationship |-> afrelationship]

\* the attachments dicts of the calls: items in insertion order
Attachments(items) == [py |-> "dict", d |-> [k \in {items[i][1] : i \in 1..Len(items)} |-> TRUE],
                       items |-> items]

\* the file the calls attach under each name
AttachedFile(filename) ==
    CASE filename = "a.txt" ->
             ("filedata" :> PyBytes(BLOB)) @@ ("afrelationship" :> PyStr("supplement")) @@
             ("description" :> PyStr(<<"terms of sale">>))
      [] filename = "Z.pdf" ->
             ("filepath" :> PyStr("/data/Z.pdf")) @@ ("afrelationship" :> PyStr("Supplement"))
      [] filename = "g.bin" ->
             ("filedata" :> PyBytes(<<0, 255>>)) @@ ("afrelationship" :> PyStr("source")) @@
             ("creation_datetime" :> PyDatetime("2019", "12", "24", "18", "00", "00"))
      [] filename = ORDERX_FILENAME -> "filedata" :> PyBytes(OX_BASIC.bytes)
      [] filename = FACTURX_FILENAME -> "filedata" :> PyBytes(FX_MINIMUM.bytes)
      [] filename = ZUGFERD_FILENAMES[1] -> "filedata" :> PyBytes(ZF_BASIC.bytes)
      [] filename = ZUGFERD_FILENAMES[2] -> "filedata" :> PyBytes(ZF_BASIC.bytes)

\* every dict of at most MaxAttachments of three of these files, in every
\* insertion order
AttachmentsArgs ==
    {Attachments([i \in 1..Len(names) |-> <<names[i], AttachedFile(names[i])>>]) :
        names \in {s \in UNION {[1..k -> {"Z.pdf", "g.bin", ORDERX_FILENAME}] :
                                   k \in 0..MaxAttachments} :
                      \A i, j \in 1..Len(s) : i # j => s[i] # s[j]}}

GivenMetadata ==
    PyDict(("author" :> PyStr(<<"Akretion">>)) @@ ("title" :> PyStr(<<"Invoice I1242">>)) @@
           ("subject" :> None))

\* every payload under every flavor argument, validated; and without
\* validation the payloads that fail it
ClassifyCalls ==
    {Arguments(PyBytes(bytes), PyStr(flavor), PyStr("autodetect"), TRUE, None, None,
               PyStr("data")) :
        <<bytes, flavor>> \in
            ({x.bytes : x \in {FX_EN16931, FX_MINIMUM, FX_INVALID, OX_BASIC, ZF_BASIC}}
             \cup {BLOB})
            \X {"autodetect", "factur-x", "Order-X"}}
    \cup
    {Arguments(PyBytes(bytes), PyStr("autodetect"), PyStr("autodetect"), FALSE, None, None,
               PyStr("data")) :
        bytes \in {FX_INVALID.bytes, ZF_BASIC.bytes, BLOB}}

\* a ZUGFeRD 1.0 payload with its level and metadata given; a payload given
\* as a tree; a language, an output file and an order type; wrongly typed
\* arguments; attachments with every reserved name, with a file that does
\* not exist, with no content, with no relationship and with the one of a
\* primary entry
OtherCalls ==
    {Arguments(PyBytes(ZF_BASIC.bytes), PyStr("autodetect"), PyStr("BASIC"), TRUE,
               GivenMetadata, None, PyStr("data")),
     Arguments(PyEtree(FX_EN16931), PyStr("facturx"), PyStr("en16931"), TRUE, None, None,
               PyStr("data")),
     [Arguments(PyBytes(OX_BASIC.bytes), PyStr("orderx"), PyStr("basic"), TRUE,
                GivenMetadata, None, PyStr("data"))
        EXCEPT !.lang = PyStr("fr_FR"), !.output_pdf_file = PyStr("/data/out.pdf"),
               !.orderx_type = PyStr("order-response")],
     Arguments(PyBytes(FX_EN16931.bytes), None, PyStr("autodetect"), TRUE, None, None,
               PyStr("data")),
     Arguments(PyList(<<>>), PyStr("autodetect"), PyStr("autodetect"), TRUE, None, None,
               PyStr("data")),
     Arguments(PyList(<<FX_EN16931.bytes>>), PyStr("autodetect"), PyStr("autodetect"), TRUE,
               None, None, PyStr("data")),
     Arguments(PyBytes(OX_BASIC.bytes), PyStr("autodetect"), PyStr("autodetect"), TRUE,
               None,
               Attachments(<<<<"g.bin", AttachedFile("g.bin")>>,
                             <<ORDERX_FILENAME, AttachedFile(ORDERX_FILENAME)>>,
                             <<FACTURX_FILENAME, AttachedFile(FACTURX_FILENAME)>>>>),
               PyStr("data")),
     Arguments(PyBytes(FX_EN16931.bytes), PyStr("autodetect"), PyStr("autodetect"), TRUE,
               None,
               Attachments(<<<<FACTURX_FILENAME, AttachedFile(FACTURX_FILENAME)>>,
                             <<ZUGFERD_FILENAMES[1], AttachedFile(ZUGFERD_FILENAMES[1])>>,
                             <<ZUGFERD_FILENAMES[2], AttachedFile(ZUGFERD_FILENAMES[2])>>,
                             <<"a.txt", AttachedFile("a.txt")>>>>),
               PyStr("data")),
     Arguments(PyBytes(FX_EN16931.bytes), PyStr("autodetect"), PyStr("autodetect"), TRUE,
               None,
               Attachments(<<<<"Z.pdf", "filepath" :> PyStr("/data/missing.pdf")>>>>),
               PyStr("data")),
     Arguments(PyBytes(FX_EN16931.bytes), PyStr("autodetect"), PyStr("autodetect"), TRUE,
               None,
               Attachments(<<<<"a.txt", "description" :> PyStr(<<"nothing">>)>>>>),
               PyStr("data")),
     Arguments(PyBytes(FX_EN16931.bytes), PyStr("autodetect"), PyStr("autodetect"), TRUE,
               None,
               Attachments(<<<<"a.txt", "filedata" :> PyBytes(BLOB)>>,
                             <<"Z.pdf", ("filepath" :> PyStr("/data/Z.pdf")) @@
                                        ("afrelationship" :> PyStr("Data"))>>>>),
               PyStr("data"))}
    \cup
    \* a flavor, a level and an order type given that are not the ones of the
    \* payload, without validation
    {Arguments(PyBytes(OX_BASIC.bytes), PyStr("facturx"), PyStr("extended"), FALSE, None,
               None, PyStr("data")),
     [Arguments(PyBytes(FX_EN16931.bytes), PyStr("order-x"), PyStr("comfort"), FALSE, None,
                None, PyStr("data"))
        EXCEPT !.orderx_type = PyStr("order_change")]}
    \cup
    \* orders of every subtype, with and without validation
    {Arguments(PyBytes(x.bytes), PyStr("autodetect"), PyStr("autodetect"), check_xsd, None,
               None, PyStr("data")) :
        <<x, check_xsd>> \in {OX_RESPONSE, OX_PADDED, OX_MINIMUM} \X BOOLEAN}
    \cup
    \* attachments with a reserved name and a file to read, in calls that fail
    \* after line 1170: no XML, no known flavor, a payload the schema rejects,
    \* a header without the fields of the metadata
    {Arguments(PyBytes(call[1]), PyStr(call[2]), PyStr(call[3]), call[4], None,
               Attachments(<<<<ORDERX_FILENAME, AttachedFile(ORDERX_FILENAME)>>,
                             <<"Z.pdf", AttachedFile("Z.pdf")>>,
                             <<"a.txt", AttachedFile("a.txt")>>>>),
               PyStr("data")) :
        call \in {<<BLOB, "autodetect", "autodetect", TRUE>>,
                  <<ZF_BASIC.bytes, "autodetect", "autodetect", TRUE>>,
                  <<FX_INVALID.bytes, "autodetect", "autodetect", TRUE>>,
                  <<ZF_BASIC.bytes, "factur-x", "basic", FALSE>>}}

\* a call whose payload fails the schema, with an attachment whose file does
\* not exist and an output file
UncheckedCall ==
    [Arguments(PyBytes(FX_INVALID.bytes), PyStr("autodetect"), PyStr("autodetect"), TRUE,
               None,
               Attachments(<<<<"Z.pdf", "filepath" :> PyStr("/data/missing.pdf")>>>>),
               PyStr("data"))
        EXCEPT !.output_pdf_file = PyStr("/data/out.pdf")]

\* that call with one argument missing or of a wrong type
ArgumentCalls ==
    {[UncheckedCall EXCEPT ![argument[1]] = argument[2]] :
        argument \in {<<"xml", None>>, <<"xml", PyBytes(<<>>)>>,
                      <<"xml", PyList(<<FX_INVALID.bytes>>)>>,
                      <<"flavor", None>>, <<"flavor", PyBytes(<<102, 120>>)>>,
                      <<"level", None>>, <<"level", PyList(<<"basic">>)>>,
                      <<"orderx_type", PyList(<<"order">>)>>,
                      <<"check_xsd", PyStr("yes")>>, <<"check_xsd", None>>,
                      <<"pdf_metadata", PyStr("Akretion")>>,
                      <<"lang", PyList(<<"fr">>)>>,
                      <<"output_pdf_file", PyList(<<"/data/out.pdf">>)>>,
                      <<"attachments", PyList(<<"Z.pdf">>)>>,
                      <<"afrelationship", PyList(<<"data">>)>>}}

\* the calls of generate_from_file: the ones above, every relationship of
\* the XML file under every kind of level, and every attachments dict
GenerateCalls ==
    ClassifyCalls \cup OtherCalls \cup ArgumentCalls
    \cup
    {Arguments(PyBytes(x.bytes), PyStr("autodetect"), PyStr(level), FALSE, None, None,
               afrelationship) :
        <<x, level, afrelationship>> \in
            {FX_EN16931, FX_MINIMUM, OX_BASIC}
            \X {"autodetect", "basic wl"}
            \X {PyStr("Source"), PyStr("alternative"), PyStr("attachment")}}
    \cup
    {Arguments(PyBytes(FX_EN16931.bytes), PyStr("autodetect"), PyStr("autodetect"), FALSE,
               None, attachments, None) :
        attachments \in AttachmentsArgs}

\* what the caller observes of a call: its arguments and what it returned
\* or raised; the file that was written is the state of pdf_file
Outcome(op, pdf_file, a, now, out) ==
    IF ~out.ok THEN [op |-> op, pdf_file |-> PyBool(pdf_file # None), args |-> a, out |-> out]
    ELSE [op |-> op, pdf_file |-> PyBool(TRUE), args |-> a, now |-> now,
          out |-> [out EXCEPT !.written = IF out.to = "pdf_file" THEN None ELSE @]]

\* generate_from_file, called as `op`, has ended with `out`
FileWritten(op, pdf_file, a, now, out) ==
    /\ pdf' = IF out.ok /\ out.to = "pdf_file" THEN out.written ELSE pdf
    /\ result' = Outcome(op, pdf_file, a, now, out)

GenerateFromFile(pdf_file, a, now) ==
    FileWritten("generate_from_file", pdf_file, a, now, generate_from_file(pdf_file, a, now))

\* lines 959-974: the deprecated wrapper passes its arguments on with the
\* flavor factur-x; a: the arguments generate_from_file receives
GenerateFacturxFromFile(a, now) ==
    FileWritten("generate_facturx_from_file", pdf, a, now, generate_from_file(pdf, a, now))

GenerateFromBinary(a, now) ==
    /\ result' = Outcome("generate_from_binary", pdf, a, now,
                         generate_from_binary(pdf, a, now))
    /\ UNCHANGED pdf

\* lines 862-871: the deprecated wrapper of generate_from_binary
GenerateFacturxFromBinary(a, now) ==
    /\ result' = Outcome("generate_facturx_from_binary", pdf, a, now,
                         generate_from_binary(pdf, a, now))
    /\ UNCHANGED pdf

\* the embeddings of generate_from_file run at one moment, the ones of
\* generate_from_binary at that moment or on the next day; pdf_file is the
\* document, or missing in a call that has other defects; the deprecated
\* wrappers are given an invoice and an order; the document is read back
\* with and without its arguments in order.  generate_from_binary is called
\* with a payload that is embedded, one that the validation rejects, one
\* that is no XML, and an attachment whose file does not exist
Init == pdf \in SourcePdfs /\ result = NoCall

Next ==
    \/ \E a \in GenerateCalls, now \in ClockReads : GenerateFromFile(pdf, a, now)
    \/ \E now \in ClockReads : GenerateFromFile(None, UncheckedCall, now)
    \/ \E a \in {c \in ClassifyCalls :
                     /\ c.flavor.s = "autodetect"
                     /\ c.xml.b \in {FX_EN16931.bytes, FX_INVALID.bytes, BLOB}}
                \cup
                {c \in OtherCalls :
                     /\ c.attachments # None
                     /\ \E i \in 1..Len(c.attachments.items) :
                            get(c.attachments.items[i][2], "filepath", None)
                            = PyStr("/data/missing.pdf")},
          now \in ClockReads \cup
                  {[file |-> PyDatetime("2026", "11", "03", "09", "15", "00"),
                    xmp |-> PyDatetime("2026", "11", "03", "09", "15", "00"),
                    info |-> PyDatetime("2026", "11", "03", "09", "15", "01")]} :
           GenerateFromBinary(a, now)
    \/ \E x \in {FX_EN16931, OX_BASIC}, now \in ClockReads :
           GenerateFacturxFromFile(
               [Arguments(PyBytes(x.bytes), PyStr("factur-x"), PyStr("autodetect"), FALSE,
                          None, None, PyStr("data"))
                   EXCEPT !.output_pdf_file = PyStr("/data/out.pdf")], now)
    \/ \E x \in {FX_EN16931, OX_BASIC}, now \in ClockReads :
           GenerateFacturxFromBinary(
               Arguments(PyBytes(x.bytes), PyStr("factur-x"), PyStr("autodetect"), FALSE,
                         None, None, PyStr("data")), now)
    \/ \E pdf_file \in {pdf, None},
          check_xsd \in {PyBool(TRUE), PyStr("True")},
          filenames \in {PyList(<<>>), PyStr(FACTURX_FILENAME)} :
           GetXmlFromPdf(pdf_file, check_xsd, filenames)

Spec == Init /\ [][Next]_vars

(* ------------------------- calls of the functions ---------------------- *)
(* The classifiers and the composer of the XMP packet are functions of     *)
(* their arguments; they are called on every document and every argument   *)
(* of the sets below, whatever the PDF file is.                            *)

\* the trees the classifiers are called on.  Roots: the three flavors, a
\* root without namespace, names that end with or only contain a known
\* name, a UBL invoice; every one with every text of the type code ("" for
\* an empty or absent element).  Below the roots of the three flavors,
\* every text of the guideline ID split at ':' (<<>> for an element without
\* text) in every context element.
ClassifierInputs ==
    {[bytes |-> <<60, 9>>, tag |-> tag, context |-> context, guideline |-> guideline,
      typecode |-> typecode, base_info |-> NoBaseInfo, valid_xsd |-> {}] :
        <<tag, context, guideline, typecode>> \in
            ({FX_EN16931.tag, OX_BASIC.tag, ZF_BASIC.tag,
              <<"", "CrossIndustryInvoice">>,
              <<"{urn:example}", "My", "SCRDMCCBDACIOMessageStructure">>,
              <<"{urn:example}", "CrossIndustryInvoice", "Request">>,
              <<"{urn:oasis:names:specification:ubl:schema:xsd:Invoice-2}", "Invoice">>}
             \X {"ExchangedDocumentContext"}
             \X {OX_BASIC.guideline, FX_MINIMUM.guideline}
             \X {"220", "230", "231", " 220 ", "231 ", "380", "   ", ""})
            \cup
            ({FX_EN16931.tag, OX_BASIC.tag, ZF_BASIC.tag}
             \X {"ExchangedDocumentContext", "SpecifiedExchangedDocumentContext", "none"}
             \X {FX_EN16931.guideline, FX_MINIMUM.guideline, OX_BASIC.guideline,
                 <<"urn", "order-x.eu", "1p0", "comfort">>,
                 <<"urn", "cen.eu", "en16931", "2017#conformant#urn", "factur-x.eu",
                   "1p0", "extended">>,
                 <<"urn", "factur-x.eu", "1p0", "basic", "extended">>,
                 <<"urn", "factur-x.eu", "1p0", "extended", "comfort">>,
                 <<"urn", "factur-x.eu", "1p0", "gold">>,
                 <<"basicwl">>,
                 <<"invoice">>,
                 <<>>}
             \X {"220"})}

GetFlavor(xml_etree) ==
    /\ result' = [op |-> "get_flavor", xml_etree |-> xml_etree,
                  out |-> get_flavor(xml_etree)]
    /\ UNCHANGED pdf

GetLevel(xml_etree) ==
    /\ result' = [op |-> "get_level", xml_etree |-> xml_etree,
                  out |-> get_level(xml_etree)]
    /\ UNCHANGED pdf

GetOrderxType(xml_etree) ==
    /\ result' = [op |-> "get_orderx_type", xml_etree |-> xml_etree,
                  out |-> get_orderx_type(xml_etree)]
    /\ UNCHANGED pdf

PreparePdfMetadataXml(flavor, level, orderx_type, pdf_metadata, now) ==
    /\ result' = [op |-> "_prepare_pdf_metadata_xml", flavor |-> flavor, level |-> level,
                  orderx_type |-> orderx_type,
                  out |-> _prepare_pdf_metadata_xml(
                              flavor, level, orderx_type, pdf_metadata, now.xmp)]
    /\ UNCHANGED pdf

BaseInfo2PdfMetadata(base_info) ==
    /\ result' = [op |-> "_base_info2pdf_metadata", base_info |-> base_info,
                  out |-> _base_info2pdf_metadata(base_info)]
    /\ UNCHANGED pdf

InitFunctions == pdf \in SourcePdfs /\ result = NoCall

NextFunctions ==
    \/ \E xml_etree \in ClassifierInputs : GetFlavor(xml_etree)
    \/ \E xml_etree \in ClassifierInputs : GetLevel(xml_etree)
    \/ \E xml_etree \in ClassifierInputs : GetOrderxType(xml_etree)
    \/ \E flavor \in {"factur-x", "zugferd", "order-x"},
          level \in DOMAIN FACTURX_LEVEL2xsd \cup DOMAIN ORDERX_LEVEL2xsd,
          orderx_type \in ORDERX_TYPES,
          pdf_metadata \in {clean_up(GivenMetadata.d),
                            _base_info2pdf_metadata(_extract_base_info(FX_EN16931).value)},
          now \in ClockReads :
            PreparePdfMetadataXml(flavor, level, orderx_type, pdf_metadata, now)
    \/ \E number \in {"I1242", "PO78"},
          doc_type \in {"220", "230", "231", "380", "381", "383", " 220 ", ""} :
            BaseInfo2PdfMetadata(
                [seller |-> "Seller SA", buyer |-> "Buyer GmbH", number |-> number,
                 date |-> strptime(<<"2017", "08", "17">>), doc_type |-> doc_type])

SpecFunctions == InitFunctions /\ [][NextFunctions]_vars

(* =============================== claims ================================ *)

ReadOps == {"get_xml_from_pdf", "get_facturx_xml_from_pdf", "get_orderx_xml_from_pdf"}

\* the last call was an extraction with arguments of the right types
ReadCall ==
    /\ result.op \in ReadOps
    /\ result.pdf_file.v
    /\ result.check_xsd.py = "bool"
    /\ result.filenames.py = "list"

\* the recognized set of the last extraction, as a set
Recognized ==
    IF result.filenames.l = <<>>
    THEN {FACTURX_FILENAME, "zugferd-invoice.xml", "ZUGFeRD-invoice.xml", ORDERX_FILENAME}
    ELSE {result.filenames.l[i] : i \in 1..Len(result.filenames.l)}

NotFound(out) == out.ok /\ out.value[1] \in {None, False}

\* the structure of the file read, stated on the objects themselves
HasNamesDict ==
    "/Names" \in DOMAIN pdf.root.d /\ IsDict(getObject(pdf.root.d["/Names"]))

NamesDict == getObject(pdf.root.d["/Names"])

HasEmbeddedFilesDict ==
    /\ HasNamesDict
    /\ "/EmbeddedFiles" \in DOMAIN NamesDict.d
    /\ IsDict(getObject(NamesDict.d["/EmbeddedFiles"]))

TreeRoot == getObject(NamesDict.d["/EmbeddedFiles"])

RootHasNames == HasEmbeddedFilesDict /\ "/Names" \in DOMAIN TreeRoot.d

RootHasKids ==
    HasEmbeddedFilesDict /\ "/Names" \notin DOMAIN TreeRoot.d /\ "/Kids" \in DOMAIN TreeRoot.d

RootNames == getObject(TreeRoot.d["/Names"])

RootKids == getObject(TreeRoot.d["/Kids"])

\* the walk over the children of the root, and whether it has a list to give
Walk == _parse_embeddedfiles_kids_node(RootKids, 1, <<>>)

HasCollected ==
    \/ RootHasNames /\ IsList(RootNames)
    \/ RootHasKids /\ Walk.ok

Collected == IF RootHasNames THEN RootNames.a ELSE Walk.res

CollectedPairs ==
    [k \in 1..(Len(Collected) \div 2) |-> <<Collected[2 * k - 1], Collected[2 * k]>>]

\* the pairs of the collected list whose name is in the recognized set
Qualifying ==
    {k \in DOMAIN CollectedPairs :
        CollectedPairs[k][1].t = "str" /\ CollectedPairs[k][1].s \in Recognized}

Earliest == CHOOSE k \in Qualifying : \A j \in Qualifying : k <= j

\* C2: get_xml_from_pdf returns (None, None) and raises nothing when the
\* catalog has no /Names dictionary, /Names has no /EmbeddedFiles dictionary,
\* the root of the name tree has neither /Names nor /Kids, its /Names or its
\* /Kids is not an array, or the collected leaf list has an odd number of
\* elements, whatever filenames that list holds.
C2_Malformed ==
    \/ ~HasNamesDict
    \/ ~HasEmbeddedFilesDict
    \/ (~RootHasNames /\ ~RootHasKids)
    \/ (RootHasNames /\ ~IsList(RootNames))
    \/ (RootHasKids /\ ~IsList(RootKids))
    \/ (HasCollected /\ Len(Collected) % 2 = 1)

C2_MalformedGivesNone ==
    (ReadCall /\ C2_Malformed) => result.out = Return(<<None, None>>)

\* an odd leaf list that holds a recognized filename was read as (None, None)
C2_Witness ==
    /\ ReadCall
    /\ HasCollected
    /\ Len(Collected) % 2 = 1
    /\ \E i \in 1..Len(Collected) :
           Collected[i].t = "str" /\ Collected[i].s \in Recognized
    /\ result.out = Return(<<None, None>>)

\* C3: a well-formed, non-empty name tree without any recognized filename
\* gives the result of a malformed tree, (None, None).
C3_NoMatchGivesNone ==
    (/\ ReadCall
     /\ HasCollected
     /\ Len(Collected) % 2 = 0
     /\ Collected # <<>>
     /\ Qualifying = {})
    => result.out = Return(<<None, None>>)

\* C4: the pair returned is the earliest pair of the collected list whose
\* filename is in the recognized set, read as that pair alone would be:
\* pairs before it are skipped, pairs after it are never looked at, and the
\* order of the names in the recognized set plays no part.
C4_FirstMatchWins ==
    (/\ ReadCall
     /\ HasCollected
     /\ Len(Collected) % 2 = 0
     /\ Qualifying # {})
    => /\ result.out.ok
       /\ result.out.value =
              ReadMatch(CollectedPairs[Earliest][1].s, CollectedPairs[Earliest][2],
                        result.check_xsd.v)

\* two pairs qualify, the earliest is the one returned, and the recognized
\* set lists the name of the later pair first
C4_Witness ==
    /\ ReadCall
    /\ HasCollected
    /\ Len(Collected) % 2 = 0
    /\ Cardinality(Qualifying) = 2
    /\ result.filenames.l # <<>>
    /\ result.filenames.l[1] = CollectedPairs[2][1].s
    /\ result.filenames.l[1] # CollectedPairs[1][1].s
    /\ result.out = Return(<<PyStr(CollectedPairs[1][1].s),
                             PyBytes(getData(CollectedPairs[1][2].o.d["/EF"].d["/F"].o))>>)

\* a grandchild of the root that has /Kids and no /Names
HasThirdLevel ==
    /\ RootHasKids
    /\ IsList(RootKids)
    /\ \E i \in 1..Len(RootKids.a) :
        LET child == getObject(RootKids.a[i])
        IN  /\ IsDict(child)
            /\ "/Names" \notin DOMAIN child.d
            /\ "/Kids" \in DOMAIN child.d
            /\ IsList(getObject(child.d["/Kids"]))
            /\ \E j \in 1..Len(getObject(child.d["/Kids"]).a) :
                LET grandchild == getObject(getObject(child.d["/Kids"]).a[j])
                IN  /\ IsDict(grandchild)
                    /\ "/Names" \notin DOMAIN grandchild.d
                    /\ "/Kids" \in DOMAIN grandchild.d

\* C5: a name tree with a third level of nesting is malformed as a whole:
\* extraction finds nothing in it, whatever its other branches hold.
C5_ThirdLevelIsMalformed ==
    (ReadCall /\ HasThirdLevel) => NotFound(result.out)

(* ------------------- claims about produced documents ------------------- *)

EmbedOps ==
    {"generate_from_file", "generate_from_binary",
     "generate_facturx_from_file", "generate_facturx_from_binary"}

\* the last call was an embedding that returned
Embedded == result.op \in EmbedOps /\ result.out.ok

\* the document the last embedding has produced
Produced ==
    IF result.op \in {"generate_from_binary", "generate_facturx_from_binary"}
    THEN result.out.value
    ELSE IF result.out.to = "output_pdf_file" THEN result.out.written
    ELSE pdf

\* the bytes the last embedding was given
EmbeddedBytes == xml_to_bytes(result.args.xml).value.xml_bytes

PrimaryName ==
    IF result.out.flavor = "order-x" THEN ORDERX_FILENAME ELSE FACTURX_FILENAME

NamePairsOf(doc) ==
    embeddedfiles_by_two(doc.root.d["/Names"].d["/EmbeddedFiles"].d["/Names"].a)

FilenamesOf(doc) == [i \in 1..Len(NamePairsOf(doc)) |-> NamePairsOf(doc)[i][1].s]

AFOf(doc) == getObject(doc.root.d["/AF"]).a

\* the names under which the caller asked for attachments
SuppliedNames ==
    IF result.args.attachments = None THEN <<>>
    ELSE [i \in 1..Len(result.args.attachments.items) |->
             result.args.attachments.items[i][1]]

IsReserved(filename) == InList(filename, ALL_FILENAMES)

\* the file specification stored under the name of the flavor
PrimaryEntry ==
    LET pairs == NamePairsOf(Produced)
    IN  getObject(pairs[CHOOSE i \in 1..Len(pairs) : pairs[i][1].s = PrimaryName][2])

\* C1: round trip.  For every embedding of a payload given as bytes that
\* the library has accepted with the validation against the schema enabled
\* (a valid combination of PDF, XML, flavor and level), get_xml_from_pdf,
\* called on the produced document with its default arguments, returns the
\* canonical file name of the flavor and bytes equal to the embedded ones.
C1_RoundTrip ==
    (Embedded /\ result.args.xml.py = "bytes" /\ result.args.check_xsd.v)
    => get_xml_from_pdf(Produced, PyBool(TRUE), PyList(<<>>))
       = Return(<<PyStr(PrimaryName), PyBytes(EmbeddedBytes)>>)

\* C6: deterministic ordering.  In every produced document the file names
\* of /Names are in strictly ascending order and are exactly the name of the
\* primary entry and the supplied names that are not reserved, so the
\* sequence depends on the set of attachments only and not on the insertion
\* order of the mapping; /AF lists the same file names in the same order.
C6_SortedWhateverTheInsertionOrder ==
    Embedded =>
        LET names == FilenamesOf(Produced)
            expected == {PrimaryName} \cup
                        {SuppliedNames[i] : i \in {j \in 1..Len(SuppliedNames) :
                                                       ~IsReserved(SuppliedNames[j])}}
        IN  /\ Len(names) = Cardinality(expected)
            /\ {names[i] : i \in 1..Len(names)} = expected
            /\ \A i, j \in 1..Len(names) : i < j => StrLess(names[i], names[j])
            /\ names = [i \in 1..Len(AFOf(Produced)) |->
                           getObject(AFOf(Produced)[i]).d["/F"].s]

\* two attachments were supplied in descending order of their names, on
\* both sides of the name of the primary entry
C6_Witness ==
    /\ Embedded
    /\ SuppliedNames = <<"g.bin", "Z.pdf">>
    /\ FilenamesOf(Produced) = <<"Z.pdf", FACTURX_FILENAME, "g.bin">>

\* C7: /AF and /Names correspond index by index.  /AF has as many elements
\* as /Names has pairs, and its i-th element is the reference stored as the
\* value of the i-th pair.
C7_AFMatchesNames ==
    Embedded =>
        /\ Len(AFOf(Produced)) = Len(NamePairsOf(Produced))
        /\ \A i \in 1..Len(AFOf(Produced)) :
               /\ AFOf(Produced)[i].t = "ref"
               /\ AFOf(Produced)[i] = NamePairsOf(Produced)[i][2]

\* a document with the primary entry and two supplementary ones
C7_Witness == Embedded /\ Len(AFOf(Produced)) = 3 /\ Len(NamePairsOf(Produced)) = 3

\* C8: AFRelationship override.  When the resolved flavor is factur-x and
\* the resolved level is minimum or basicwl, the primary entry has
\* /AFRelationship /Data; if source or alternative was requested the call
\* has warned about the switch; and no embedding ends with the error about
\* the relationship.
C8_DataForMinimumAndBasicWL ==
    /\ (Embedded /\ result.out.flavor = "factur-x"
        /\ result.out.level \in {"minimum", "basicwl"})
       => /\ PrimaryEntry.d["/AFRelationship"] = NameObject(<<"/", "Data">>)
          /\ (/\ result.args.afrelationship.py = "str"
              /\ lower(result.args.afrelationship.s) \in {"source", "alternative"})
             => "afrelationship switched to data for the profile" \in result.out.warnings
    /\ (result.op \in EmbedOps /\ ~result.out.ok)
       => result.out.error # "ValueError: wrong value for afrelationship"

\* source was requested for a payload whose level was autodetected as
\* minimum, and the embedding returned
C8_Witness ==
    /\ Embedded
    /\ result.args.afrelationship = PyStr("Source")
    /\ result.args.level = PyStr("autodetect")
    /\ result.out.flavor = "factur-x"
    /\ result.out.level = "minimum"

\* C9: reserved file names.  /Names of every produced document has exactly
\* one entry with a reserved file name; it is the entry of the primary XML
\* payload, holding the embedded bytes; a call that supplied an attachment
\* under a reserved name has warned that it is not attached.
C9_OneReservedName ==
    Embedded =>
        LET names == FilenamesOf(Produced)
            reserved == {i \in 1..Len(names) : IsReserved(names[i])}
        IN  /\ Cardinality(reserved) = 1
            /\ \A i \in reserved : names[i] = PrimaryName
            /\ getData(GetItem(GetItem(PrimaryEntry, "/EF"), "/F")) = EmbeddedBytes
            /\ PrimaryEntry.d["/Desc"].s \in {"Factur-X XML file", "Order-X XML file"}
            /\ (\E i \in 1..Len(SuppliedNames) : IsReserved(SuppliedNames[i]))
               => "reserved file name, file not attached" \in result.out.warnings

\* an attachment was supplied under the name of the primary entry, and one
\* under the reserved name of another flavor
C9_Witness ==
    /\ Embedded
    /\ \E i \in 1..Len(SuppliedNames) : SuppliedNames[i] = PrimaryName
    /\ \E i \in 1..Len(SuppliedNames) :
           IsReserved(SuppliedNames[i]) /\ SuppliedNames[i] # PrimaryName

\* the objects of a document that are metadata streams
MetadataObjects(doc) ==
    {i \in 1..Len(doc.objects) :
        /\ IsDict(doc.objects[i])
        /\ "/Type" \in DOMAIN doc.objects[i].d
        /\ doc.objects[i].d["/Type"] = NameObject("/Metadata")}

\* C10: idempotent metadata.  After any sequence of embeddings the document
\* holds exactly one metadata stream, the catalog's /Metadata refers to it,
\* and it is the packet composed by the last embedding.
C10_OneMetadata ==
    Embedded =>
        /\ Cardinality(MetadataObjects(Produced)) = 1
        /\ \A i \in MetadataObjects(Produced) :
               /\ Produced.root.d["/Metadata"] = IndirectObject(Produced.objects[i])
               /\ Return(getData(Produced.objects[i]))
                  = _prepare_pdf_metadata_xml(
                        result.out.flavor, result.out.level,
                        IF result.out.orderx_type.py = "str"
                        THEN result.out.orderx_type.s ELSE "None",
                        result.out.pdf_metadata, result.now.xmp)

\* the embedding was made into a document that already had a /Metadata (the
\* /ID of the hybrid source is carried over by every embedding into it)
C10_Witness ==
    /\ Embedded
    /\ result.op = "generate_from_file"
    /\ result.out.to = "pdf_file"
    /\ pdf.ID = HybridPdf.ID
    /\ Cardinality(MetadataObjects(pdf)) = 1

(* --------------------- claims about the classifiers -------------------- *)

\* the ending of the qualified name of the root
RootNameEnding(xml_etree) == xml_etree.tag[Len(xml_etree.tag)]

\* C13: get_flavor classifies by the qualified name of the root alone.  A
\* name ending with CrossIndustryInvoice gives factur-x, one ending with
\* CrossIndustryDocument gives zugferd, one ending with
\* SCRDMCCBDACIOMessageStructure gives order-x, every other name raises the
\* error of the unrecognized flavor; two documents with the same root name
\* get the same answer whatever else they hold.
C13_FlavorByRootName ==
    result.op = "get_flavor" =>
        /\ result.out =
               CASE RootNameEnding(result.xml_etree) = "CrossIndustryInvoice" ->
                        Return("factur-x")
                 [] RootNameEnding(result.xml_etree) = "CrossIndustryDocument" ->
                        Return("zugferd")
                 [] RootNameEnding(result.xml_etree) = "SCRDMCCBDACIOMessageStructure" ->
                        Return("order-x")
                 [] OTHER -> Raise("Exception: could not detect the flavor")
        /\ \A other \in ClassifierInputs :
               other.tag = result.xml_etree.tag => get_flavor(other) = result.out

\* an invoice root over the guideline and the type code of an order
C13_Witness ==
    /\ result.op = "get_flavor"
    /\ result.xml_etree.tag = FX_EN16931.tag
    /\ result.xml_etree.guideline = OX_BASIC.guideline
    /\ result.xml_etree.typecode = "220"
    /\ result.out = Return("factur-x")

\* the document has a guideline ID with a text
HasGuidelineText(xml_etree) ==
    /\ xml_etree.context \in {"ExchangedDocumentContext", "SpecifiedExchangedDocumentContext"}
    /\ Len(xml_etree.guideline) >= 1

\* the levels of the compatibility table (the legacy flavor has the tokens
\* of the order standard)
ValidLevels(flavor) ==
    IF flavor = "factur-x" THEN {"minimum", "basicwl", "basic", "en16931", "extended"}
    ELSE {"basic", "comfort", "extended"}

\* C14: the level get_level returns is relative to the flavor.  For every
\* document of a recognized flavor and every text of its guideline ID,
\* get_level returns a level of the flavor's valid-level set or raises the
\* error of the unrecognized level.
C14_LevelOfTheFlavor ==
    (/\ result.op = "get_level"
     /\ get_flavor(result.xml_etree).ok
     /\ HasGuidelineText(result.xml_etree))
    => IF result.out.ok
       THEN result.out.value \in ValidLevels(get_flavor(result.xml_etree).value)
       ELSE result.out.error = "ValueError: invalid URN"

\* the levels get_level recognizes (lines 791-793)
RecognizedLevels == {"minimum", "basicwl", "basic", "en16931", "extended", "comfort"}

\* C15: level token fallback.  get_level returns the last segment of the
\* guideline ID whenever it is a recognized level, and the second-to-last
\* one exactly when the last one is not recognized and the second-to-last
\* one is: ...:en16931:2017 gives en16931, ...:basic:extended gives
\* extended.
C15_LastSegmentThenSecondToLast ==
    (result.op = "get_level" /\ HasGuidelineText(result.xml_etree)) =>
        LET doc_id == result.xml_etree.guideline
            n == Len(doc_id)
        IN  /\ doc_id[n] \in RecognizedLevels => result.out = Return(doc_id[n])
            /\ (n >= 2 /\ doc_id[n] \notin RecognizedLevels
                       /\ doc_id[n - 1] \in RecognizedLevels)
               => result.out = Return(doc_id[n - 1])
            /\ (n >= 2 /\ doc_id[n] \notin RecognizedLevels
                       /\ doc_id[n - 1] \notin RecognizedLevels)
               => ~result.out.ok
            /\ result.out.ok => result.out.value \in {doc_id[n], doc_id[IF n >= 2 THEN n - 1 ELSE n]}

\* the second-to-last segment was used
C15_Witness ==
    /\ result.op = "get_level"
    /\ HasGuidelineText(result.xml_etree)
    /\ result.xml_etree.guideline = <<"urn", "cen.eu", "en16931", "2017">>
    /\ result.out = Return("en16931")

\* what the claim reads in the text of the type code of an order document
TypeCodeRead(xml_etree) ==
    IF xml_etree.tag # OX_BASIC.tag THEN "missing"
    ELSE CASE xml_etree.typecode \in {"220", " 220 "} -> "220"
           [] xml_etree.typecode = "230" -> "230"
           [] xml_etree.typecode \in {"231", "231 "} -> "231"
           [] OTHER -> "other"

\* C16: get_orderx_type maps the type code, its surrounding whitespace
\* ignored: 220 to order, 230 to order_change, 231 to order_response; every
\* other code, an empty one and a missing element raise the error of the
\* unrecognized order type, and no value outside the three is returned.
C16_TypeCodeToSubtype ==
    result.op = "get_orderx_type" =>
        /\ result.out =
               CASE TypeCodeRead(result.xml_etree) = "220" -> Return("order")
                 [] TypeCodeRead(result.xml_etree) = "230" -> Return("order_change")
                 [] TypeCodeRead(result.xml_etree) = "231" -> Return("order_response")
                 [] OTHER -> Raise("Exception: not a valid Order-X TypeCode")
        /\ result.out.ok => result.out.value \in {"order", "order_change", "order_response"}

\* a code between blanks was mapped
C16_Witness ==
    /\ result.op = "get_orderx_type"
    /\ result.xml_etree.typecode = " 220 "
    /\ result.out = Return("order")

(* ----------------------- claims about the embedding -------------------- *)

\* the steps of the last embedding that come before the assembly succeed on
\* its arguments: the payload is read where a step needs it, its flavor,
\* its level and its order type are found, it passes the validation that
\* was asked for, and its base info is there when the metadata are derived
StepsSucceeded ==
    LET parsed == fromstring(EmbeddedBytes)
        flavor == lower(result.args.flavor.s)
    IN  /\ flavor \notin {"factur-x", "facturx", "order-x", "orderx"}
           => parsed.ok /\ get_flavor(parsed.root) = Return(result.out.flavor)
        /\ result.out.flavor = "order-x"
           => result.out.orderx_type.py = "str" /\ result.out.orderx_type.s \in ORDERX_TYPES
        /\ result.args.check_xsd.v
           => xml_check_xsd(EmbeddedBytes, FALSE, result.out.flavor, result.out.level).ok
        /\ result.args.pdf_metadata = None
           => parsed.ok /\ _extract_base_info(parsed.root).ok

\* C11: no partial output.  A call of generate_from_file that ends with an
\* error leaves the PDF file as it was and has written no other file; the
\* PDF file changes only in a call that returns, in which every step before
\* the assembly has succeeded.
C11_NoPartialOutput ==
    [][/\ (result'.op = "generate_from_file" /\ ~result'.out.ok)
          => (pdf' = pdf /\ "written" \notin DOMAIN result'.out)
       /\ (pdf' # pdf \/ (result'.op = "generate_from_file" /\ result'.out.ok))
          => (result'.op = "generate_from_file" /\ result'.out.ok /\ StepsSucceeded')
      ]_vars

\* the validation has rejected the payload and the hybrid source is intact
C11_Witness ==
    /\ result.op = "generate_from_file"
    /\ ~result.out.ok
    /\ result.out.error = "Exception: not valid against the XSD"
    /\ pdf = HybridPdf

\* C12: the scope of the temporary file of generate_from_binary.  The file
\* is created, the input PDF is written to it, the embedding runs on it and
\* it is read back, in that order; when the call ends the file has been
\* removed, whether the embedding has returned or raised; the caller gets
\* bytes only when the embedding has returned, and they are what was read
\* back.
C12_TemporaryFileScope ==
    result.op = "generate_from_binary" =>
        /\ ~result.out.f.exists
        /\ result.out.f.log =
               IF result.out.ok
               THEN <<"created", "written", "embed", "read", "removed">>
               ELSE <<"created", "written", "embed", "removed">>
        /\ IF result.out.ok
           THEN result.out.value.root.d["/Metadata"].t = "ref"
           ELSE "value" \notin DOMAIN result.out

\* the validation has rejected the payload, and the file has been removed
C12_Witness ==
    /\ result.op = "generate_from_binary"
    /\ ~result.out.ok
    /\ result.out.error = "Exception: not valid against the XSD"
    /\ result.out.f.log = <<"created", "written", "embed", "removed">>

\* the name the order type is displayed under
SubtypeName(orderx_type) ==
    CASE orderx_type = "order" -> "Order"
      [] orderx_type = "order_change" -> "Order Change"
      [] orderx_type = "order_response" -> "Order Response"

\* C17: subtype and derived metadata agree.  For every order payload
\* embedded with its subtype autodetected and its metadata derived, an
\* order response has the title of the 'Order Response on Order' template
\* and the seller as author, an order or an order change has the buyer as
\* author, and the keywords name the subtype that the XMP DocumentType
\* carries.
C17_MetadataMatchesSubtype ==
    (/\ Embedded
     /\ result.out.flavor = "order-x"
     /\ result.args.orderx_type = PyStr("autodetect")
     /\ result.args.pdf_metadata = None)
    => LET info == fromstring(EmbeddedBytes).root.base_info
           subtype == result.out.orderx_type.s
           pdf_metadata == result.out.pdf_metadata
       IN  /\ subtype = "order_response"
              => /\ pdf_metadata["author"] = PyStr(<<info.seller>>)
                 /\ pdf_metadata["title"] =
                        PyStr(<<info.seller, ": Order Response on Order ", info.number,
                                " from ", info.buyer>>)
           /\ subtype \in {"order", "order_change"}
              => pdf_metadata["author"] = PyStr(<<info.buyer>>)
           /\ pdf_metadata["keywords"] = PyStr(<<SubtypeName(subtype), ", ", "Order-X">>)
           /\ \A i \in MetadataObjects(Produced) :
                  getData(Produced.objects[i]).xpacket.documenttype
                  = CASE subtype = "order" -> "ORDER"
                      [] subtype = "order_change" -> "ORDER_CHANGE"
                      [] subtype = "order_response" -> "ORDER_RESPONSE"

\* C19: the pair of flavor and level belongs to the compatibility table.
\* Every produced document of the invoice or of the order flavor has a
\* level of its flavor, and no run enters the assembly with a level that
\* the composer of the XMP packet does not know.
C19_CompatiblePair ==
    /\ (Embedded /\ result.out.flavor \in {"factur-x", "order-x"})
       => result.out.level \in ValidLevels(result.out.flavor)
    /\ (result.op \in EmbedOps /\ ~result.out.ok)
       => result.out.error # "KeyError: level"

\* the canonical file names of a flavor
CanonicalNames(flavor) ==
    CASE flavor = "factur-x" -> {"factur-x.xml"}
      [] flavor = "order-x" -> {"order-x.xml"}
      [] flavor = "zugferd" -> {"zugferd-invoice.xml", "ZUGFeRD-invoice.xml"}

\* C20: the primary entry carries the canonical file name of the flavor.
\* In every produced document the payload is stored under a canonical name
\* of the resolved flavor, and DocumentFileName of the XMP packet is that
\* name.
C20_CanonicalNameOfTheFlavor ==
    Embedded =>
        \E i \in 1..Len(NamePairsOf(Produced)) :
            LET filename == NamePairsOf(Produced)[i][1].s
                filespec == getObject(NamePairsOf(Produced)[i][2])
            IN  /\ filename \in CanonicalNames(result.out.flavor)
                /\ getData(GetItem(GetItem(filespec, "/EF"), "/F")) = EmbeddedBytes
                /\ \A j \in MetadataObjects(Produced) :
                       getData(Produced.objects[j]).xpacket.xml_filename = filename

(* ---------------------- claims about the XMP packet -------------------- *)

\* C18: the four properties of the extension schema.  For the order flavor
\* DocumentFileName is order-x.xml, DocumentType the order type in capital
\* letters and ConformanceLevel the level in capital letters, under the URN
\* of the orders; for the other flavors DocumentFileName is factur-x.xml,
\* DocumentType INVOICE and ConformanceLevel the label of the level, under
\* the URN of the invoices, which is another one; Version is 1.0; the URN
\* the extension schema declares is the namespace of the properties.
C18_ExtensionSchemaProperties ==
    result.op = "_prepare_pdf_metadata_xml" =>
        IF result.flavor = "order-x"
        THEN /\ result.out.ok
             /\ result.out.value.xpacket.xml_filename = "order-x.xml"
             /\ result.out.value.xpacket.documenttype =
                    CASE result.orderx_type = "order" -> "ORDER"
                      [] result.orderx_type = "order_change" -> "ORDER_CHANGE"
                      [] result.orderx_type = "order_response" -> "ORDER_RESPONSE"
             /\ result.level \in {"basic", "comfort", "extended"}
                => result.out.value.xpacket.xmp_level =
                       CASE result.level = "basic" -> "BASIC"
                         [] result.level = "comfort" -> "COMFORT"
                         [] result.level = "extended" -> "EXTENDED"
             /\ result.out.value.xpacket.xmlns_fx =
                    "urn:factur-x:pdfa:CrossIndustryDocument:1p0#"
             /\ result.out.value.xpacket.version = "1.0"
             /\ result.out.value.xpacket.namespaceURI = result.out.value.xpacket.xmlns_fx
        ELSE result.level \in {"minimum", "basicwl", "basic", "en16931", "extended"}
             => /\ result.out.ok
                /\ result.out.value.xpacket.xml_filename = "factur-x.xml"
                /\ result.out.value.xpacket.documenttype = "INVOICE"
                /\ result.out.value.xpacket.xmp_level =
                       CASE result.level = "minimum" -> "MINIMUM"
                         [] result.level = "basicwl" -> "BASIC WL"
                         [] result.level = "basic" -> "BASIC"
                         [] result.level = "en16931" -> "EN 16931"
                         [] result.level = "extended" -> "EXTENDED"
                /\ result.out.value.xpacket.xmlns_fx =
                       "urn:factur-x:pdfa:CrossIndustryDocument:invoice:1p0#"
                /\ result.out.value.xpacket.version = "1.0"
                /\ result.out.value.xpacket.namespaceURI
                   = result.out.value.xpacket.xmlns_fx

\* the packet of an invoice of level en16931
C18_Witness ==
    /\ result.op = "_prepare_pdf_metadata_xml"
    /\ result.flavor = "factur-x"
    /\ result.level = "en16931"
    /\ result.out.ok
    /\ result.out.value.xpacket.xmp_level = "EN 16931"

\* the entries of /Names of the produced document other than the primary one
SupplementaryEntries ==
    {i \in 1..Len(NamePairsOf(Produced)) : NamePairsOf(Produced)[i][1].s # PrimaryName}

\* what the caller asked as the relationship of the attachment `filename`
RequestedRelationship(filename) ==
    LET items == result.args.attachments.items
        file_dict == items[CHOOSE i \in 1..Len(items) : items[i][1] = filename][2]
    IN  get(file_dict, "afrelationship", None)

FirstMatch == CollectedPairs[Earliest]

\* the file of the first match can be reached: a file specification with an
\* /EF dictionary whose /F is a stream
Dereferenceable ==
    LET spec == getObject(FirstMatch[2])
    IN  /\ IsDict(spec) /\ "/EF" \in DOMAIN spec.d
        /\ IsDict(GetItem(spec, "/EF")) /\ "/F" \in DOMAIN GetItem(spec, "/EF").d
        /\ GetItem(GetItem(spec, "/EF"), "/F").t = "stream"

FirstMatchBytes == getData(GetItem(GetItem(getObject(FirstMatch[2]), "/EF"), "/F"))

\* the flavor the name of the first match stands for
FirstMatchFlavor ==
    IF FirstMatch[1].s = ORDERX_FILENAME THEN "order-x"
    ELSE IF FirstMatch[1].s = FACTURX_FILENAME THEN "factur-x"
    ELSE "zugferd"

\* the three ways the first match fails
C22_Unreadable ==
    \/ ~Dereferenceable
    \/ ~fromstring(FirstMatchBytes).ok
    \/ /\ result.check_xsd.v
       /\ ~xml_check_xsd(FirstMatchBytes, FALSE, FirstMatchFlavor, "autodetect").ok

\* C22: silent-empty extraction.  When the first pair with a recognized
\* filename cannot be dereferenced, holds no well-formed XML, or, check_xsd
\* being enabled, holds XML that fails the schema of the flavor its name
\* stands for, the extraction returns (None, None), raises nothing, and
\* returns no later pair.
C22_FailuresGiveNone ==
    (/\ ReadCall
     /\ HasCollected
     /\ Len(Collected) % 2 = 0
     /\ Qualifying # {}
     /\ C22_Unreadable)
    => result.out = Return(<<None, None>>)

\* the first match failed in each of the three ways, before a later pair
\* with a recognized name that can be read
C22_LaterPairReadable ==
    /\ ReadCall
    /\ HasCollected
    /\ Len(Collected) % 2 = 0
    /\ Cardinality(Qualifying) = 2
    /\ Earliest = 1
    /\ result.out = Return(<<None, None>>)
    /\ ReadMatch(CollectedPairs[2][1].s, CollectedPairs[2][2], result.check_xsd.v)
       # <<None, None>>

C22_Witness ==
    /\ C22_LaterPairReadable
    /\ ~Dereferenceable

C22_WitnessNotWellFormed ==
    /\ C22_LaterPairReadable
    /\ Dereferenceable
    /\ ~fromstring(FirstMatchBytes).ok

C22_WitnessSchema ==
    /\ C22_LaterPairReadable
    /\ Dereferenceable
    /\ fromstring(FirstMatchBytes).ok

\* the container-level objects of a produced document: the entries of
\* /Names with the streams and parameters they refer to, the /AF array, the
\* /Metadata stream and the /Info dictionary
ContainerObjects(doc) ==
    [names |-> NamePairsOf(doc), af |-> AFOf(doc),
     metadata |-> getObject(doc.root.d["/Metadata"]), info |-> doc.info]

\* C23: reproducible output.  Two calls of generate_from_binary in a row
\* that both return, with the same source PDF and the same arguments, give
\* documents with the same container-level objects, whatever the moments at
\* which they run.
C23_ReproducibleOutput ==
    [][(/\ result.op = "generate_from_binary" /\ result.out.ok
        /\ result'.op = "generate_from_binary" /\ result'.out.ok
        /\ result'.args = result.args)
       => ContainerObjects(result'.out.value) = ContainerObjects(result.out.value)]_vars

\* the same calls at the same moment give the same objects; the ones at two
\* moments differ in nothing but the dates
C23_SameButTheDates ==
    [][(/\ result.op = "generate_from_binary" /\ result.out.ok
        /\ result'.op = "generate_from_binary" /\ result'.out.ok
        /\ result'.args = result.args)
       => /\ result'.now = result.now
             => ContainerObjects(result'.out.value) = ContainerObjects(result.out.value)
          /\ FilenamesOf(result'.out.value) = FilenamesOf(result.out.value)
          /\ [k \in DOMAIN result.out.value.info \ {"/CreationDate", "/ModDate"} |->
                 result'.out.value.info[k]]
             = [k \in DOMAIN result.out.value.info \ {"/CreationDate", "/ModDate"} |->
                   result.out.value.info[k]]
          /\ result'.now # result.now
             => /\ result'.out.value.info["/ModDate"] # result.out.value.info["/ModDate"]
                /\ getObject(result'.out.value.root.d["/Metadata"])
                   # getObject(result.out.value.root.d["/Metadata"])
                /\ NamePairsOf(result'.out.value) # NamePairsOf(result.out.value)]_vars

\* the /Kids of the children of the root that the walk enters at level 2
SecondLevelKids ==
    {getObject(getObject(RootKids.a[i]).d["/Kids"]) :
        i \in {i \in 1..Len(RootKids.a) :
                  /\ RootKids.a[i].t = "ref"
                  /\ IsDict(getObject(RootKids.a[i]))
                  /\ "/Names" \notin DOMAIN getObject(RootKids.a[i]).d
                  /\ "/Kids" \in DOMAIN getObject(RootKids.a[i]).d}}

\* an element of a second-level /Kids that is no indirect reference, resolves
\* to no dictionary, or has a /Names that is no array
BrokenGrandchild(kid_entry) ==
    \/ kid_entry.t # "ref"
    \/ ~IsDict(getObject(kid_entry))
    \/ /\ "/Names" \in DOMAIN getObject(kid_entry).d
       /\ ~IsList(getObject(getObject(kid_entry).d["/Names"]))

HasSecondLevelViolation ==
    /\ RootHasKids
    /\ IsList(RootKids)
    /\ \E kids \in SecondLevelKids :
           \/ ~IsList(kids)
           \/ IsList(kids) /\ \E j \in 1..Len(kids.a) : BrokenGrandchild(kids.a[j])

\* C24: violations below the first level.  When a second-level /Kids is no
\* array, or one of its elements is no indirect reference, resolves to no
\* dictionary or has a /Names that is no array, the tree is malformed and
\* the extraction finds nothing.
C24_SecondLevelViolationIsMalformed ==
    (ReadCall /\ HasSecondLevelViolation) => NotFound(result.out)

\* the display name of a type code
DisplayName(doc_type) ==
    CASE doc_type = "220" -> "Order"
      [] doc_type = "230" -> "Order Change"
      [] doc_type = "231" -> "Order Response"
      [] doc_type = "381" -> "Refund"
      [] OTHER -> "Invoice"

InvalidArguments(call) ==
    \/ ~call.pdf_file.v
    \/ Falsy(call.args.xml)
    \/ call.args.xml.py \notin {"str", "bytes", "etree", "file"}
    \/ call.args.flavor.py # "str"
    \/ call.args.level.py # "str"
    \/ call.args.orderx_type.py \notin {"str", "None"}
    \/ call.args.check_xsd.py # "bool"
    \/ call.args.pdf_metadata.py \notin {"dict", "None"}
    \/ call.args.lang.py \notin {"str", "None"}
    \/ call.args.output_pdf_file.py \notin {"str", "None"}
    \/ call.args.attachments.py \notin {"dict", "None"}
    \/ call.args.afrelationship.py \notin {"str", "None"}

\* the errors about the arguments of generate_from_file
ArgumentErrors ==
    {"ValueError: missing pdf_file argument", "ValueError: missing xml argument",
     "ValueError: flavor must be a string", "ValueError: level must be a string",
     "ValueError: orderx_type must be a string or None",
     "ValueError: check_xsd must be a boolean",
     "ValueError: pdf_metadata must be a dict or None",
     "ValueError: lang must be a string or None",
     "ValueError: output_pdf_file must be a string or None",
     "ValueError: attachments must be a dict or None",
     "ValueError: afrelationship must be a string or None",
     "TypeError: the second argument must be a string, an etree or a file"}

\* C26: fail-fast validation of the arguments.  A call of generate_from_file
\* without pdf_file or xml, or with a wrongly typed flavor, level,
\* orderx_type, check_xsd, pdf_metadata, lang, output_pdf_file, attachments,
\* afrelationship or xml, raises a ValueError or a TypeError about an
\* argument, not the error of a later step (reading an attachment,
\* classifying, validating), and writes no file;
\* a call of get_xml_from_pdf without pdf_file, with a check_xsd that is no
\* bool or with filenames that is no list raises a ValueError instead of
\* returning.
C26_FailFast ==
    [][/\ (result'.op = "generate_from_file" /\ InvalidArguments(result'))
          => /\ ~result'.out.ok
             /\ result'.out.error \in ArgumentErrors
             /\ pdf' = pdf
       /\ (/\ result'.op = "get_xml_from_pdf"
           /\ \/ ~result'.pdf_file.v
              \/ result'.check_xsd.py # "bool"
              \/ result'.filenames.py # "list")
          => /\ ~result'.out.ok
             /\ result'.out.error \in
                    {"ValueError: missing pdf_invoice argument",
                     "ValueError: bad type for check_xsd argument",
                     "ValueError: bad type for filenames argument"}]_vars

\* a call whose payload fails the schema and whose attachment does not
\* exist was refused for the type of check_xsd
C26_Witness ==
    /\ result.op = "generate_from_file"
    /\ result.args.check_xsd = PyStr("yes")
    /\ result.args.xml = PyBytes(FX_INVALID.bytes)
    /\ result.args.attachments.items[1][2]["filepath"] = PyStr("/data/missing.pdf")
    /\ result.out = Raise("ValueError: check_xsd must be a boolean")

\* the flavor, the level and the order type of the last embedding as
\* generate_from_file normalises them
GivenFlavor ==
    LET flavor == lower(result.args.flavor.s)
    IN  IF flavor = "facturx" THEN "factur-x"
        ELSE IF flavor = "orderx" THEN "order-x" ELSE flavor

GivenLevel == replace(lower(result.args.level.s), " ", "")

GivenOrderxType ==
    IF Falsy(result.args.orderx_type) THEN ""
    ELSE replace(replace(lower(result.args.orderx_type.s), "-", "_"), " ", "_")

\* the levels of a flavor
LevelsOf(flavor) ==
    IF flavor = "order-x" THEN {"basic", "comfort", "extended"}
    ELSE {"minimum", "basicwl", "basic", "en16931", "extended"}

FileSpecsOf(doc) ==
    {doc.objects[i] : i \in {i \in 1..Len(doc.objects) :
                                /\ doc.objects[i].t = "dict"
                                /\ "/Type" \in DOMAIN doc.objects[i].d
                                /\ doc.objects[i].d["/Type"] = NameObject("/Filespec")}}

\* the names the caller supplied that are not reserved
KeptNames == {SuppliedNames[i] : i \in {i \in 1..Len(SuppliedNames) :
                                           ~IsReserved(SuppliedNames[i])}}

\* C28: no carry-over of attachments.  The name tree of a produced document
\* holds the entry of the primary XML file and one entry for each attachment
\* supplied under a name that is not reserved, and nothing else, whatever
\* the source PDF held; the document holds no file specification outside
\* that tree; and an extraction from it returns the payload of this
\* embedding.
C28_NoCarryOver ==
    Embedded =>
        LET names == FilenamesOf(Produced)
        IN  /\ {names[i] : i \in 1..Len(names)} = {PrimaryName} \cup KeptNames
            /\ Len(names) = 1 + Cardinality(KeptNames)
            /\ FileSpecsOf(Produced)
               = {getObject(NamePairsOf(Produced)[i][2]) : i \in 1..Len(names)}
            /\ get_xml_from_pdf(Produced, PyBool(FALSE), PyList(<<>>))
               = Return(<<PyStr(PrimaryName), PyBytes(EmbeddedBytes)>>)

\* an invoice was embedded in a document produced by an earlier embedding of
\* another payload with attachments: none of its entries is in the result
C28_Witness ==
    /\ Embedded
    /\ result.op = "generate_from_binary"
    /\ "/AF" \in DOMAIN pdf.root.d
    /\ Len(FilenamesOf(pdf)) > 1
    /\ FilenamesOf(Produced) = <<FACTURX_FILENAME>>
    /\ get_xml_from_pdf(pdf, PyBool(FALSE), PyList(<<>>)).value[2] # PyBytes(EmbeddedBytes)

C29_WitnessWrapper ==
    /\ Embedded
    /\ result.op \in {"generate_facturx_from_file", "generate_facturx_from_binary"}
    /\ PrimaryEntry.d["/AFRelationship"] = NameObject(<<"/", "Data">>)

\* the attachments mapping that the caller holds once the call has ended,
\* and the one it has passed
CallerAttachments ==
    IF "attachments" \in DOMAIN result.out THEN result.out.attachments
    ELSE result.args.attachments.items

\* a call of generate_from_file with an attachments mapping that has gone
\* past line 1170: it has ended well, or with the error of a later line
PastLine1170 ==
    /\ result.op \in {"generate_from_file", "generate_facturx_from_file"}
    /\ result.args.attachments # None
    /\ result.args.attachments.py = "dict"
    /\ \/ result.out.ok
       \/ result.out.error \notin ArgumentErrors \cup {"FileNotFoundError: no such file"}

\* the entry is given by the path of a file and without content
ByFilepath(fadict) ==
    /\ "filepath" \in DOMAIN fadict
    /\ "filedata" \notin DOMAIN fadict

\* what lines 1152-1170 are to leave of an entry given by filepath
EditedEntry(before, after) ==
    LET edited == {"filedata", "modification_datetime", "afrelationship"}
        requested == IF "afrelationship" \in DOMAIN before
                     THEN lower(before["afrelationship"].s) ELSE "unspecified"
    IN  /\ DOMAIN after = DOMAIN before \cup edited
        /\ \A k \in DOMAIN before \ edited : after[k] = before[k]
        /\ after["filedata"] = PyBytes(Files[before["filepath"].s].data)
        /\ after["modification_datetime"] =
               IF "modification_datetime" \in DOMAIN before
               THEN before["modification_datetime"]
               ELSE Files[before["filepath"].s].mtime
        /\ after["afrelationship"] =
               PyStr(IF requested \in ATTACHMENTS_AFRelationship THEN requested
                     ELSE "unspecified")

\* C30: the attachments mapping is edited in place.  After a call of
\* generate_from_file that has gone past line 1170, whether it has embedded
\* the XML or failed in a later step (classification, schema validation,
\* metadata extraction, assembly), the mapping the caller has passed holds
\* the entries it gave without the ones under a reserved filename, in the
\* same order; an entry given by filepath has gained filedata (the content
\* of the file), a modification time (the one of the file unless one was
\* given) and an afrelationship of the attachments set (the one requested
\* in lower case, or unspecified); every other entry is as it was given.
C30_EditedInPlace ==
    PastLine1170 =>
        LET given == result.args.attachments.items
            kept == SelectSeq(given, LAMBDA item : \A i \in 1..Len(ALL_FILENAMES) :
                                                       item[1] # ALL_FILENAMES[i])
        IN  /\ Len(CallerAttachments) = Len(kept)
            /\ \A i \in 1..Len(kept) :
                   /\ CallerAttachments[i][1] = kept[i][1]
                   /\ IF ByFilepath(kept[i][2])
                      THEN EditedEntry(kept[i][2], CallerAttachments[i][2])
                      ELSE CallerAttachments[i][2] = kept[i][2]

\* the mapping has lost an entry and an entry has gained its content
C30_Edited ==
    /\ PastLine1170
    /\ Len(CallerAttachments) < Len(result.args.attachments.items)
    /\ \E i \in 1..Len(CallerAttachments) :
           /\ "afrelationship" \in DOMAIN CallerAttachments[i][2]
           /\ \E j \in 1..Len(result.args.attachments.items) :
                  /\ result.args.attachments.items[j][1] = CallerAttachments[i][1]
                  /\ ByFilepath(result.args.attachments.items[j][2])
                  /\ result.args.attachments.items[j][2]["afrelationship"]
                     # CallerAttachments[i][2]["afrelationship"]

\* the edits are seen after an embedding
C30_Witness == C30_Edited /\ result.out.ok

\* and after a failure of the classification, of the validation and of
\* the extraction of the metadata
C30_WitnessClassification ==
    /\ C30_Edited
    /\ ~result.out.ok
    /\ result.out.error \in {"XMLSyntaxError", "Exception: could not detect the flavor"}

C30_WitnessValidation ==
    C30_Edited /\ ~result.out.ok /\ result.out.error = "Exception: not valid against the XSD"

C30_WitnessMetadata ==
    /\ C30_Edited
    /\ ~result.out.ok
    /\ result.out.error = "IndexError: list index out of range"
    /\ result.args.flavor.s = "factur-x"

====
